---- MODULE Spec2Model ----
(***************************************************************************)
(* Model of the hypermind multi-scope architecture                         *)
(* (src/internal/hypermind/hypermind.go): the scope registry m.scopes, the *)
(* peer directory peerNetwork.activePeers and the discovery index          *)
(* peerNetwork.dht.entries, with one action per exported method.           *)
(*                                                                         *)
(* Every method holds its component's lock (m.mu or peerNetwork.mu) from   *)
(* its first access to the shared maps until it returns, so a call is one  *)
(* atomic step here.  Records are modelled by value: the registry and the  *)
(* directory hold the fields of the record whose pointer the code stores.  *)
(* time.Now() is a reading of a non-decreasing integer clock; the zero     *)
(* time.Time is 0.                                                         *)
(***************************************************************************)
EXTENDS Integers, Sequences, FiniteSets

VARIABLES
    scopes,        \* m.scopes: map from scope ID to the stored DistributedScope
    activePeers,   \* m.peerNetwork.activePeers: map from peer ID to the stored Peer
    entries,       \* m.peerNetwork.dht.entries: map from key to list of peer IDs
    clock,         \* the last reading of time.Now()
    last,          \* the last call: its name, arguments, returned values, clock readings
    declCount,     \* history: declCount[s][p] = number of times a successful
                   \* ConnectPeer call of peer p listed s in its ScopeIDs
    registeredIDs, \* history: the scope IDs of the successful RegisterScope calls
    connectedIDs,  \* history: the peer IDs of the successful ConnectPeer calls
    pc,            \* per thread: the statement it is at ("idle" between calls)
    loc,           \* per thread: the arguments, locals and results of its call
    mu,            \* m.mu, the sync.RWMutex of the scope registry
    pmu,           \* m.peerNetwork.mu, the sync.RWMutex of the peer network
    dmu,           \* m.peerNetwork.dht.mu, the sync.RWMutex of the discovery index
    peerSnap,      \* history: activePeers and entries as the last completed
                   \* ConnectPeer left them
    Variables,     \* tensorlogic Framework.Variables: map from name to Variable
    Equations,     \* tensorlogic Framework.Equations: list of TensorEquation
    atoms,         \* atenspace Space.atoms: map from atom ID to the stored Atom
    links,         \* atenspace Space.links: list of Link
    tensorStore,   \* atenspace Space.tensorStore: map from tensor ID to Tensor
    boundaries,    \* atenspace Space.boundaries: list of DomainBoundary
    smu            \* atenspace Space.mu, the sync.RWMutex of the space

hist == <<declCount, registeredIDs, connectedIDs>>

\* The state of the threads and locks, used by the interleaved specification.
conc == <<pc, loc, mu, pmu, dmu, peerSnap>>

\* The tensor logic framework and the space, the other two parts of the
\* UnifiedFramework.
ext == <<Variables, Equations, atoms, links, tensorStore, boundaries, smu>>

vars == <<scopes, activePeers, entries, clock, last, hist, conc, ext>>

----------------------------------------------------------------------------
(* Bounds of the model *)

MaxClock == 2       \* time.Now() readings range over 1..MaxClock
MaxEntryLen == 2    \* a discovery index entry holds at most this many identifiers

----------------------------------------------------------------------------
(* Values *)

ZeroTime == 0

StateKeys == {"k1", "k2"}
StateVals == {"v1", "v2"}

\* A Go map[string]interface{}: nil, or a finite mapping.
NilMap == [isNil |-> TRUE, kv |-> <<>>]
MkMap(f) == [isNil |-> FALSE, kv |-> f]
EmptyMap == MkMap(<<>>)
AllMaps == {MkMap(f) : f \in UNION {[D -> StateVals] : D \in SUBSET StateKeys}}

\* errors.New(ctx, errors.InvalidParameter, op, msg); NoErr is the nil error.
\* InvalidParameter is the specification's InvalidInput kind.
NoErr == [code |-> "", msg |-> ""]
InvalidParameter == "InvalidParameter"
\* The NotFound error kind of the specification; hypermind.go builds no error of it.
NotFound == "NotFound"
Err(code, msg) == [code |-> code, msg |-> msg]

ScopeIDs == {"s1", "s2"}
PeerIDs == {"p1", "p2"}
DHTKeys == {"s1", "s2", "s3"}

\* The *DistributedScope arguments callers pass: nil, or a record.
NilScope == [nil |-> TRUE, ID |-> "", ParentID |-> "", Type |-> "", Peers |-> <<>>,
             State |-> NilMap, CreatedAt |-> ZeroTime, UpdatedAt |-> ZeroTime]
ParentOf(id) == IF id = "s2" THEN "s1" ELSE ""
TypeOf(id) == IF id = "s2" THEN "project" ELSE "org"
PeersOf(id) == IF id = "s2" THEN <<"p1", "p2">> ELSE <<>>
ScopeStates == {NilMap, EmptyMap, MkMap([k \in StateKeys |-> "v1"])}
ScopeInputs ==
    {NilScope} \cup
    {[nil |-> FALSE, ID |-> id, ParentID |-> ParentOf(id), Type |-> TypeOf(id),
      Peers |-> PeersOf(id), State |-> st, CreatedAt |-> ZeroTime, UpdatedAt |-> ZeroTime] :
        id \in ScopeIDs \cup {""}, st \in ScopeStates}

\* The state arguments of PropagateState.
Deltas == {NilMap} \cup AllMaps

\* The *Peer arguments callers pass: nil, or a record.
NilPeer == [nil |-> TRUE, ID |-> "", Address |-> "", LastSeen |-> ZeroTime, ScopeIDs |-> <<>>]
MkPeer(id, addr, sids) ==
    [nil |-> FALSE, ID |-> id, Address |-> addr, LastSeen |-> ZeroTime, ScopeIDs |-> sids]
PeerInputs ==
    { NilPeer,
      MkPeer("", "a1", <<"s1">>),
      MkPeer("p1", "a1", <<"s1">>),
      MkPeer("p1", "a2", <<"s2">>),
      MkPeer("p1", "a1", <<"s1", "s2">>),
      MkPeer("p2", "a2", <<"s1">>),
      MkPeer("p2", "a1", <<>>),
      MkPeer("p2", "a2", <<"s2", "s2">>) }

\* The *Atom arguments callers pass to the space: nil, or a record.
AtomIDs == {"a1", "a2"}
NilAtom == [nil |-> TRUE, ID |-> "", Type |-> "", Name |-> "", Attributes |-> NilMap,
            TensorID |-> "", CreatedAt |-> ZeroTime]
MkAtom(id, type, attrs) ==
    [nil |-> FALSE, ID |-> id, Type |-> type, Name |-> id, Attributes |-> attrs,
     TensorID |-> "", CreatedAt |-> ZeroTime]
AtomInputs ==
    { NilAtom,
      MkAtom("", "entity", NilMap),
      MkAtom("a1", "entity", NilMap),
      MkAtom("a2", "aggregate", NilMap),
      MkAtom("a2", "resource", MkMap([k \in {"k1"} |-> "v1"])) }

\* The *Link arguments: nil, or a record.
NilLink == [nil |-> TRUE, ID |-> "", Type |-> "", Source |-> "", Target |-> "",
            CreatedAt |-> ZeroTime]
MkLink(id, source, target) ==
    [nil |-> FALSE, ID |-> id, Type |-> "scope", Source |-> source, Target |-> target,
     CreatedAt |-> ZeroTime]
LinkInputs ==
    { NilLink,
      MkLink("l1", "", "a1"),
      MkLink("l1", "a1", ""),
      MkLink("l1", "a1", "a2"),
      MkLink("l2", "a2", "a2"),
      MkLink("l3", "a1", "a3"),
      MkLink("l3", "a3", "a1") }

\* The *Tensor arguments: nil, or a record.  Two tensors may carry the same
\* ID, and the ID may be empty.
NilTensor == [nil |-> TRUE, ID |-> "", Shape |-> <<>>, Data |-> <<>>, DType |-> "",
              Device |-> ""]
MkTensor(id, data) ==
    [nil |-> FALSE, ID |-> id, Shape |-> <<Len(data)>>, Data |-> data, DType |-> "float64",
     Device |-> "cpu"]
TensorInputs ==
    {NilTensor, MkTensor("", <<1>>), MkTensor("t1", <<1>>), MkTensor("t1", <<2>>),
     MkTensor("t2", <<3>>)}

\* The *DomainBoundary arguments: nil, or a record.
NilBoundary == [nil |-> TRUE, ID |-> "", Name |-> "", Type |-> "", AtomIDs |-> <<>>,
                Properties |-> NilMap]
MkBoundary(id, type, atomIDs) ==
    [nil |-> FALSE, ID |-> id, Name |-> id, Type |-> type, AtomIDs |-> atomIDs,
     Properties |-> NilMap]
BoundaryInputs ==
    { NilBoundary,
      MkBoundary("", "scope", <<"a1">>),
      MkBoundary("b1", "scope", <<"a2", "a1">>),
      MkBoundary("b1", "security", <<"a1">>),
      MkBoundary("b2", "logical", <<"a3", "a1", "a1">>) }

\* The *Variable arguments of the tensor logic framework: nil, or a record.
NilVariable == [nil |-> TRUE, Name |-> "", Indices |-> <<>>, Shape |-> <<>>, Data |-> <<>>,
                Type |-> ""]
MkVariable(name, indices, data, type) ==
    [nil |-> FALSE, Name |-> name, Indices |-> indices, Shape |-> <<>>, Data |-> data,
     Type |-> type]
VariableInputs ==
    { NilVariable,
      MkVariable("", <<>>, <<>>, "symbolic"),
      MkVariable("s1", <<"i">>, <<1, 2>>, "neural"),
      MkVariable("s3", <<>>, <<>>, "symbolic") }

\* The *TensorEquation arguments: nil, or a record.
NilEquation == [nil |-> TRUE, Left |-> "", Right |-> "", Operation |-> ""]
EquationInputs ==
    { NilEquation,
      [nil |-> FALSE, Left |-> "s1", Right |-> "s1 s3", Operation |-> "join"],
      [nil |-> FALSE, Left |-> "s3", Right |-> "s1", Operation |-> "project"] }

\* The *ScopeInfo QueryScope returns.
NilInfo == [nil |-> TRUE, ID |-> "", TensorVariable |-> NilVariable,
            DistributedScope |-> NilScope, Atom |-> NilAtom]

----------------------------------------------------------------------------
(* Helpers *)

Range(s) == {s[i] : i \in 1..Len(s)}

Count(s, x) == Cardinality({i \in 1..Len(s) : s[i] = x})

\* Mutant of MergeState: the state is replaced by the delta instead of merged.
MergeStateReplace(st, delta) == [isNil |-> st.isNil, kv |-> delta.kv]

\* for k, v := range state { scope.State[k] = v }
MergeState(st, delta) ==
    [isNil |-> st.isNil,
     kv |-> [k \in (DOMAIN st.kv) \cup (DOMAIN delta.kv) |->
                IF k \in DOMAIN delta.kv THEN delta.kv[k] ELSE st.kv[k]]]

\* Mutant of add: an identifier already in the entry is not appended again.
addDedup(ent, key, peerID) ==
    IF key \in DOMAIN ent /\ peerID \in Range(ent[key]) THEN ent
    ELSE [k \in (DOMAIN ent) \cup {key} |->
            IF k = key
            THEN (IF k \in DOMAIN ent THEN ent[k] ELSE <<>>) \o <<peerID>>
            ELSE ent[k]]

\* DistributedHashTable.add: append peerID to the entry of key.
add(ent, key, peerID) ==
    [k \in (DOMAIN ent) \cup {key} |->
        IF k = key
        THEN (IF k \in DOMAIN ent THEN ent[k] ELSE <<>>) \o <<peerID>>
        ELSE ent[k]]

\* The loop of ConnectPeer over peer.ScopeIDs, calling add for each.
RECURSIVE addAll(_, _, _)
addAll(ent, sids, peerID) ==
    IF sids = <<>> THEN ent
    ELSE addAll(add(ent, Head(sids), peerID), Tail(sids), peerID)

\* Mutant of lookup: a missing key falls back to some other key's entry.
lookupFallback(ent, key) ==
    IF key \in DOMAIN ent THEN ent[key]
    ELSE IF DOMAIN ent # {} THEN ent[CHOOSE k \in DOMAIN ent : TRUE]
    ELSE <<>>

\* DistributedHashTable.lookup: a copy of the entry, or the empty list.
lookup(ent, key) == IF key \in DOMAIN ent THEN ent[key] ELSE <<>>

\* Mutant of livePeers: an identifier listed more than once gives one record.
RECURSIVE livePeersDistinct(_, _)
livePeersDistinct(ap, peerIDs) ==
    IF peerIDs = <<>> THEN <<>>
    ELSE (IF Head(peerIDs) \in DOMAIN ap /\ Head(peerIDs) \notin Range(Tail(peerIDs))
          THEN <<ap[Head(peerIDs)]>> ELSE <<>>)
         \o livePeersDistinct(ap, Tail(peerIDs))

\* The filter loop of DiscoverPeers: the directory records of the listed
\* identifiers that are present in activePeers, in list order.
RECURSIVE livePeers(_, _)
livePeers(ap, peerIDs) ==
    IF peerIDs = <<>> THEN <<>>
    ELSE (IF Head(peerIDs) \in DOMAIN ap THEN <<ap[Head(peerIDs)]>> ELSE <<>>)
         \o livePeers(ap, Tail(peerIDs))

\* All orders in which a range over a Go map can visit its keys.
Perms(S) == {s \in [1..Cardinality(S) -> S] : \A x \in S : \E i \in DOMAIN s : s[i] = x}

----------------------------------------------------------------------------
(* Threads and locks *)

Threads == {"t1", "t2"}
None == "none"

\* A sync.RWMutex: the thread holding it for writing, the threads holding it
\* for reading.
FreeLock == [w |-> None, r |-> {}]

\* The locals of a thread that is in no call.
IdleLoc == [op |-> "", scope |-> NilScope, id |-> "", delta |-> NilMap, peer |-> NilPeer,
            i |-> 0, peerIDs |-> <<>>, retPeers |-> <<>>, held |-> FALSE, stale |-> FALSE,
            variable |-> NilVariable, eq |-> NilEquation, snap |-> <<>>,
            retVar |-> NilVariable, atom |-> NilAtom, tensor |-> NilTensor]

----------------------------------------------------------------------------
(* The record of a call.  existed is history: whether the identifier of a
   successful RegisterScope or ConnectPeer had a record when the call began. *)

NoCall == [op |-> "", scope |-> NilScope, id |-> "", delta |-> NilMap, peer |-> NilPeer,
           err |-> NoErr, retScope |-> NilScope, retPeers |-> <<>>, t1 |-> ZeroTime,
           t2 |-> ZeroTime, existed |-> FALSE,
           atom |-> NilAtom, link |-> NilLink, tensor |-> NilTensor,
           boundary |-> NilBoundary, retAtom |-> NilAtom, retTensor |-> NilTensor,
           retAtoms |-> <<>>, retLinks |-> <<>>, retBoundaries |-> <<>>,
           variable |-> NilVariable, eq |-> NilEquation, retVar |-> NilVariable,
           type |-> "", info |-> NilInfo]

\* NewMultiScopeArchitecture: empty registry, empty directory, empty index.
Init ==
    /\ scopes = <<>>
    /\ activePeers = <<>>
    /\ entries = <<>>
    /\ clock = 1
    /\ last = NoCall
    /\ declCount = [s \in DHTKeys |-> [p \in PeerIDs |-> 0]]
    /\ registeredIDs = {}
    /\ connectedIDs = {}
    /\ pc = [t \in Threads |-> "idle"]
    /\ loc = [t \in Threads |-> IdleLoc]
    /\ mu = FreeLock
    /\ pmu = FreeLock
    /\ dmu = FreeLock
    /\ peerSnap = [ap |-> <<>>, ent |-> <<>>]
    /\ Variables = <<>>
    /\ Equations = <<>>
    /\ atoms = <<>>
    /\ links = <<>>
    /\ tensorStore = <<>>
    /\ boundaries = <<>>
    /\ smu = FreeLock

\* Mutant of Put: an existing record is kept (create-only insert).
PutIfAbsent(m, key, value) ==
    IF key \in DOMAIN m THEN m
    ELSE [k \in (DOMAIN m) \cup {key} |-> IF k = key THEN value ELSE m[k]]

\* Mutant of Put: the map is replaced by one holding the new record alone.
PutFresh(m, key, value) == [k \in {key} |-> value]

\* m[key] = value on a Go map.
Put(m, key, value) == [k \in (DOMAIN m) \cup {key} |-> IF k = key THEN value ELSE m[k]]

----------------------------------------------------------------------------
(* Scope registry *)

\* Mutant of registered: a nil State is stored as it is.
registeredNilState(scope, t1, t2) == [scope EXCEPT !.CreatedAt = t1, !.UpdatedAt = t2]

\* Mutant of registered: UpdatedAt is left as the caller passed it.
registeredNoRefresh(scope, t1, t2) ==
    [scope EXCEPT !.CreatedAt = t1,
                  !.State = IF scope.State.isNil THEN EmptyMap ELSE scope.State]

\* The record RegisterScope leaves in m.scopes: CreatedAt and UpdatedAt are two
\* successive readings t1 <= t2 of time.Now(); a nil State becomes an empty map.
registered(scope, t1, t2) ==
    [scope EXCEPT !.CreatedAt = t1,
                  !.UpdatedAt = t2,
                  !.State = IF scope.State.isNil THEN EmptyMap ELSE scope.State]

\* Mutant of RegisterScopeErr: the empty identifier is not rejected.
RegisterScopeErrNoIDCheck(scope) ==
    IF scope.nil THEN Err(InvalidParameter, "scope is nil") ELSE NoErr

\* The error RegisterScope returns before taking the lock, or NoErr.
RegisterScopeErr(scope) ==
    IF scope.nil THEN Err(InvalidParameter, "scope is nil")
    ELSE IF scope.ID = "" THEN Err(InvalidParameter, "scope ID is empty")
    ELSE NoErr

RegisterScope(scope) ==
    /\ UNCHANGED <<conc, ext>>
    /\ LET err == RegisterScopeErr(scope) IN
       IF err # NoErr
       THEN /\ last' = [NoCall EXCEPT !.op = "RegisterScope", !.scope = scope, !.err = err]
            /\ UNCHANGED <<scopes, activePeers, entries, clock, hist>>
       ELSE \E t1 \in clock..MaxClock : \E t2 \in t1..MaxClock :
               /\ scopes' = Put(scopes, scope.ID, registered(scope, t1, t2))
               /\ clock' = t2
               /\ last' = [NoCall EXCEPT !.op = "RegisterScope", !.scope = scope,
                                         !.t1 = t1, !.t2 = t2,
                                         !.existed = scope.ID \in DOMAIN scopes]
               /\ registeredIDs' = registeredIDs \cup {scope.ID}
               /\ UNCHANGED <<activePeers, entries, declCount, connectedIDs>>

\* The error of a lookup that finds no record under scopeID.
scopeNotFound(scopeID) == Err(InvalidParameter, "scope not found")

GetScope(scopeID) ==
    /\ UNCHANGED <<conc, ext>>
    /\ last' = IF scopeID \in DOMAIN scopes
               THEN [NoCall EXCEPT !.op = "GetScope", !.id = scopeID,
                                   !.retScope = scopes[scopeID]]
               ELSE [NoCall EXCEPT !.op = "GetScope", !.id = scopeID,
                                   !.err = scopeNotFound(scopeID)]
    /\ UNCHANGED <<scopes, activePeers, entries, clock, hist>>

\* propagateToPeers: the fan-out hook, a no-op returning nil.
propagateToPeers(scopeID, state) == NoErr

\* Mutant of propagated: CreatedAt is refreshed together with UpdatedAt.
propagatedAsNew(scope, state, t) ==
    [scope EXCEPT !.State = MergeState(scope.State, state), !.UpdatedAt = t,
                  !.CreatedAt = t]

\* Mutant of propagated: UpdatedAt is not refreshed.
propagatedNoRefresh(scope, state, t) ==
    [scope EXCEPT !.State = MergeState(scope.State, state)]

\* The record PropagateState leaves under scopeID: state merged per key,
\* UpdatedAt set to the reading t of time.Now().
propagated(scope, state, t) ==
    [scope EXCEPT !.State = MergeState(scope.State, state), !.UpdatedAt = t]

PropagateState(scopeID, state) ==
    /\ UNCHANGED <<conc, ext>>
    /\ IF scopeID \notin DOMAIN scopes
       THEN /\ last' = [NoCall EXCEPT !.op = "PropagateState", !.id = scopeID,
                                      !.delta = state, !.err = scopeNotFound(scopeID)]
            /\ UNCHANGED <<scopes, activePeers, entries, clock, hist>>
       ELSE \E t \in clock..MaxClock :
               /\ scopes' = Put(scopes, scopeID, propagated(scopes[scopeID], state, t))
               /\ clock' = t
               /\ last' = [NoCall EXCEPT !.op = "PropagateState", !.id = scopeID,
                                         !.delta = state, !.t1 = t,
                                         !.err = propagateToPeers(scopeID, state)]
               /\ UNCHANGED <<activePeers, entries, hist>>

----------------------------------------------------------------------------
(* Peer network *)

\* Mutant of ConnectPeerErr: the empty identifier is not rejected.
ConnectPeerErrNoIDCheck(peer) ==
    IF peer.nil THEN Err(InvalidParameter, "peer is nil") ELSE NoErr

\* The error ConnectPeer returns before taking the lock, or NoErr.
ConnectPeerErr(peer) ==
    IF peer.nil THEN Err(InvalidParameter, "peer is nil")
    ELSE IF peer.ID = "" THEN Err(InvalidParameter, "peer ID is empty")
    ELSE NoErr

\* Mutant of connected: LastSeen is not refreshed.
connectedStale(peer, t) == peer

\* The record ConnectPeer leaves in activePeers: LastSeen is the reading t.
connected(peer, t) == [peer EXCEPT !.LastSeen = t]

\* Mutant of indexed: only the first declared scope is indexed.
indexedFirstOnly(ent, peer) ==
    IF peer.ScopeIDs = <<>> THEN ent ELSE add(ent, Head(peer.ScopeIDs), peer.ID)

\* Mutant of indexed: the peer is first taken out of the entries of the
\* scopes it no longer declares.
indexedRetracting(ent, peer) ==
    addAll([k \in DOMAIN ent |->
               IF k \in Range(peer.ScopeIDs) THEN ent[k]
               ELSE SelectSeq(ent[k], LAMBDA id : id # peer.ID)],
           peer.ScopeIDs, peer.ID)

\* Mutant of indexed: the index lists the peer's address, not its identifier.
indexedByAddress(ent, peer) == addAll(ent, peer.ScopeIDs, peer.Address)

\* The discovery index after ConnectPeer(peer).
indexed(ent, peer) == addAll(ent, peer.ScopeIDs, peer.ID)

\* Mutant of ConnectPeer: the peer's identifier is also appended to the Peers
\* list of every registered scope it declares.
ConnectPeerSyncsScopes(peer) ==
    /\ UNCHANGED <<conc, ext>>
    /\ LET err == ConnectPeerErr(peer) IN
       IF err # NoErr
       THEN /\ last' = [NoCall EXCEPT !.op = "ConnectPeer", !.peer = peer, !.err = err]
            /\ UNCHANGED <<scopes, activePeers, entries, clock, hist>>
       ELSE /\ \A k \in Range(peer.ScopeIDs) :
                  Len(lookup(entries, k)) + Count(peer.ScopeIDs, k) <= MaxEntryLen
            /\ \E t \in clock..MaxClock :
                  /\ activePeers' = Put(activePeers, peer.ID, connected(peer, t))
                  /\ entries' = indexed(entries, peer)
                  /\ clock' = t
                  /\ last' = [NoCall EXCEPT !.op = "ConnectPeer", !.peer = peer, !.t1 = t,
                                            !.existed = peer.ID \in DOMAIN activePeers]
                  /\ declCount' = [s \in DHTKeys |-> [p \in PeerIDs |->
                                      declCount[s][p] +
                                      (IF p = peer.ID THEN Count(peer.ScopeIDs, s) ELSE 0)]]
                  /\ connectedIDs' = connectedIDs \cup {peer.ID}
                  /\ scopes' = [id \in DOMAIN scopes |->
                                  IF id \in Range(peer.ScopeIDs)
                                  THEN [scopes[id] EXCEPT !.Peers = @ \o <<peer.ID>>]
                                  ELSE scopes[id]]
                  /\ UNCHANGED registeredIDs

ConnectPeer(peer) ==
    /\ UNCHANGED <<conc, ext>>
    /\ LET err == ConnectPeerErr(peer) IN
       IF err # NoErr
       THEN /\ last' = [NoCall EXCEPT !.op = "ConnectPeer", !.peer = peer, !.err = err]
            /\ UNCHANGED <<scopes, activePeers, entries, clock, hist>>
       ELSE /\ \A k \in Range(peer.ScopeIDs) :
                  Len(lookup(entries, k)) + Count(peer.ScopeIDs, k) <= MaxEntryLen
            /\ \E t \in clock..MaxClock :
                  /\ activePeers' = Put(activePeers, peer.ID, connected(peer, t))
                  /\ entries' = indexed(entries, peer)
                  /\ clock' = t
                  /\ last' = [NoCall EXCEPT !.op = "ConnectPeer", !.peer = peer, !.t1 = t,
                                            !.existed = peer.ID \in DOMAIN activePeers]
                  /\ declCount' = [s \in DHTKeys |-> [p \in PeerIDs |->
                                      declCount[s][p] +
                                      (IF p = peer.ID THEN Count(peer.ScopeIDs, s) ELSE 0)]]
                  /\ connectedIDs' = connectedIDs \cup {peer.ID}
                  /\ UNCHANGED <<scopes, registeredIDs>>

\* Mutant of discovered: the peers of an unregistered scope are not listed.
discoveredIfRegistered(ap, ent, scopeID) ==
    IF scopeID \in DOMAIN scopes THEN livePeers(ap, lookup(ent, scopeID)) ELSE <<>>

\* The list DiscoverPeers returns for scopeID (its error is always nil).
discovered(ap, ent, scopeID) == livePeers(ap, lookup(ent, scopeID))

DiscoverPeers(scopeID) ==
    /\ UNCHANGED <<conc, ext>>
    /\ last' = [NoCall EXCEPT !.op = "DiscoverPeers", !.id = scopeID,
                              !.retPeers = discovered(activePeers, entries, scopeID)]
    /\ UNCHANGED <<scopes, activePeers, entries, clock, hist>>

\* Mutant of activeLists: the list is made with length len(activePeers) and
\* then appended to, so it starts with that many nil entries.
activeListsPadded(ap) ==
    {[i \in 1..Cardinality(DOMAIN ap) |-> NilPeer] \o
     [i \in 1..Cardinality(DOMAIN ap) |-> ap[order[i]]] : order \in Perms(DOMAIN ap)}

\* The lists GetActivePeers can return: the directory's records in any order.
activeLists(ap) ==
    {[i \in 1..Cardinality(DOMAIN ap) |-> ap[order[i]]] : order \in Perms(DOMAIN ap)}

GetActivePeers ==
    /\ UNCHANGED <<conc, ext>>
    /\ \E peers \in activeLists(activePeers) :
          last' = [NoCall EXCEPT !.op = "GetActivePeers", !.retPeers = peers]
    /\ UNCHANGED <<scopes, activePeers, entries, clock, hist>>

----------------------------------------------------------------------------
(* Specifications *)

LookupIDs == ScopeIDs \cup {""}

NextRegistry ==
    \/ \E scope \in ScopeInputs : RegisterScope(scope)
    \/ \E scopeID \in LookupIDs : GetScope(scopeID)
    \/ \E scopeID \in LookupIDs : \E state \in Deltas : PropagateState(scopeID, state)

NextPeers ==
    \/ \E peer \in PeerInputs : ConnectPeer(peer)
    \/ \E scopeID \in DHTKeys : DiscoverPeers(scopeID)
    \/ GetActivePeers

Next == NextRegistry \/ NextPeers

\* Calls on the scope registry alone (guarded by m.mu).
SpecRegistry == Init /\ [][NextRegistry]_vars

\* Calls on the peer network alone (guarded by peerNetwork.mu).
SpecPeers == Init /\ [][NextPeers]_vars

Spec == Init /\ [][Next]_vars

\* Calls on both components, with fewer arguments: scopes registered with a
\* nil State, one delta, two peers that both declare s1.
JointScopeInputs == {scope \in ScopeInputs : ~scope.nil /\ scope.ID # "" /\ scope.State.isNil}
JointDeltas == {MkMap([k \in {"k1"} |-> "v1"])}
JointPeerInputs == {MkPeer("p1", "a1", <<"s1", "s2">>), MkPeer("p2", "a2", <<"s1">>)}
JointKeys == {"s1"}

NextJoint ==
    \/ \E scope \in JointScopeInputs : RegisterScope(scope)
    \/ \E scopeID \in ScopeIDs : GetScope(scopeID)
    \/ \E scopeID \in ScopeIDs : \E state \in JointDeltas : PropagateState(scopeID, state)
    \/ \E peer \in JointPeerInputs : ConnectPeer(peer)
    \/ \E scopeID \in JointKeys : DiscoverPeers(scopeID)
    \/ GetActivePeers

SpecJoint == Init /\ [][NextJoint]_vars

----------------------------------------------------------------------------
(* Claims about the scope registry, checked under SpecRegistry *)

\* The call recorded in last succeeded / is the named method.
Called(op) == last.op = op
Succeeded(op) == last.op = op /\ last.err = NoErr

\* C1: a successful PropagateState(id, delta) leaves a scope under id in which
\* every key of delta maps to delta's value, every key of the old state that
\* is not in delta keeps its old value, and no other key appears.
C1_PropagateMergesPerKey ==
    [][(last'.op = "PropagateState" /\ last'.err = NoErr) =>
          LET id == last'.id
              delta == last'.delta.kv
              before == scopes[id].State.kv
              after == scopes'[id].State.kv
          IN /\ id \in DOMAIN scopes /\ id \in DOMAIN scopes'
             /\ \A k \in DOMAIN delta : k \in DOMAIN after /\ after[k] = delta[k]
             /\ \A k \in (DOMAIN before) \ (DOMAIN delta) :
                   k \in DOMAIN after /\ after[k] = before[k]
             /\ DOMAIN after \subseteq (DOMAIN before) \cup (DOMAIN delta)]_vars

\* C1 witness: PropagateState succeeded with a delta on k1 alone, on a scope
\* whose state also holds k2 with another value.
C1_Witness ==
    /\ Succeeded("PropagateState")
    /\ DOMAIN last.delta.kv = {"k1"}
    /\ last.id \in DOMAIN scopes
    /\ DOMAIN scopes[last.id].State.kv = {"k1", "k2"}
    /\ scopes[last.id].State.kv["k2"] # last.delta.kv["k1"]

\* C2: a GetScope(S.ID) that directly follows a successful RegisterScope(S)
\* succeeds and returns a record with identifier S.ID, a non-nil state and
\* non-zero CreatedAt and UpdatedAt.
C2_RegisterThenGet ==
    [][(/\ last.op = "RegisterScope" /\ last.err = NoErr
        /\ last'.op = "GetScope" /\ last'.id = last.scope.ID) =>
          /\ last'.err = NoErr
          /\ ~last'.retScope.nil
          /\ last'.retScope.ID = last.scope.ID
          /\ ~last'.retScope.State.isNil
          /\ last'.retScope.CreatedAt # ZeroTime
          /\ last'.retScope.UpdatedAt # ZeroTime]_vars

\* C2 witness: GetScope returned the record of a scope that was registered
\* with a nil state.
C2_Witness ==
    /\ Succeeded("GetScope")
    /\ last.id \in ScopeIDs
    /\ last.retScope.ID = last.id
    /\ last.retScope.State = EmptyMap
    /\ last.retScope.CreatedAt = clock

\* C5: RegisterScope with a nil scope or an empty identifier fails with
\* InvalidParameter and leaves the registry as it was, with no record under
\* the empty key.
C5_RegisterRejectsInvalid ==
    [][(last'.op = "RegisterScope" /\ (last'.scope.nil \/ last'.scope.ID = "")) =>
          /\ last'.err.code = InvalidParameter
          /\ scopes' = scopes
          /\ "" \notin DOMAIN scopes']_vars

\* C5 witness: a non-nil scope with an empty identifier was rejected while
\* the registry held a record.
C5_Witness ==
    /\ Called("RegisterScope")
    /\ ~last.scope.nil /\ last.scope.ID = ""
    /\ last.err # NoErr
    /\ DOMAIN scopes # {}

\* C6 (as claimed): PropagateState on an unregistered identifier fails with
\* the NotFound kind, creates no scope and changes no scope.
C6_PropagateMissingNotFound ==
    [][(last'.op = "PropagateState" /\ last'.id \notin DOMAIN scopes) =>
          /\ last'.err.code = NotFound
          /\ scopes' = scopes]_vars

\* C7 (as claimed): GetScope on an unregistered identifier fails with a kind
\* that is not the InvalidParameter kind of nil or empty inputs, returns no
\* scope, and leaves the registry unchanged.
C7_GetMissingNotFound ==
    [][(last'.op = "GetScope" /\ last'.id \notin DOMAIN scopes) =>
          /\ last'.err # NoErr
          /\ last'.err.code = NotFound
          /\ last'.err.code # InvalidParameter
          /\ last'.retScope.nil
          /\ scopes' = scopes]_vars

\* C10 (as claimed): right after a successful RegisterScope the stored
\* record's CreatedAt and UpdatedAt are equal.
C10_CreatedEqualsUpdated ==
    Succeeded("RegisterScope") =>
        scopes[last.scope.ID].CreatedAt = scopes[last.scope.ID].UpdatedAt

----------------------------------------------------------------------------
(* Claims about the peer network, checked under SpecPeers *)

\* The identifiers of a list of peer records.
IDsOf(peers) == {peers[i].ID : i \in 1..Len(peers)}

\* The peers that declared s in a successful ConnectPeer call.
Declared(s) == {p \in PeerIDs : declCount[s][p] > 0}

\* C3: for every key s the identifiers DiscoverPeers(s) returns are exactly
\* the peers that declared s in a successful ConnectPeer and are in the
\* directory; when two distinct peers declared s, once each, the list has
\* length 2 and holds both.
C3_DiscoverIsDeclared ==
    /\ \A s \in DHTKeys :
          LET peers == discovered(activePeers, entries, s) IN
          /\ IDsOf(peers) = Declared(s) \cap DOMAIN activePeers
          /\ (Declared(s) = PeerIDs /\ \A p \in PeerIDs : declCount[s][p] = 1) =>
                Len(peers) = 2 /\ IDsOf(peers) = PeerIDs
    /\ Called("DiscoverPeers") =>
          IDsOf(last.retPeers) = Declared(last.id) \cap DOMAIN activePeers

\* C3 witness: DiscoverPeers returned two distinct peers.
C3_Witness ==
    /\ Succeeded("DiscoverPeers")
    /\ Len(last.retPeers) = 2
    /\ IDsOf(last.retPeers) = PeerIDs
    /\ \A p \in PeerIDs : declCount[last.id][p] = 1

\* C4: a successful ConnectPeer with an identifier that is already in the
\* directory leaves the set of directory keys as it was, the record under
\* the identifier is the passed one with LastSeen the time read in this
\* call, and every list GetActivePeers can return holds it exactly once.
C4_ConnectIdempotentOnID ==
    [][(/\ last'.op = "ConnectPeer" /\ last'.err = NoErr
        /\ last'.peer.ID \in DOMAIN activePeers) =>
          LET id == last'.peer.ID IN
          /\ DOMAIN activePeers' = DOMAIN activePeers
          /\ activePeers'[id].ID = id
          /\ activePeers'[id].Address = last'.peer.Address
          /\ activePeers'[id].ScopeIDs = last'.peer.ScopeIDs
          /\ activePeers'[id].LastSeen = last'.t1
          /\ last'.t1 >= activePeers[id].LastSeen
          /\ \A peers \in activeLists(activePeers') :
                Cardinality({i \in 1..Len(peers) : peers[i].ID = id}) = 1]_vars

\* C4 witness: p1 connected declaring s1 at address a1, then connected again
\* at address a2 at a later time; the directory holds the second record.
C4_Witness ==
    /\ Succeeded("ConnectPeer")
    /\ last.peer.ID = "p1" /\ last.peer.Address = "a2"
    /\ declCount["s1"]["p1"] > 0
    /\ activePeers["p1"].Address = "a2"
    /\ activePeers["p1"].LastSeen = MaxClock

\* C8: ConnectPeer with a nil peer or an empty identifier fails with
\* InvalidParameter and leaves the directory and the discovery index as they
\* were.
C8_ConnectRejectsInvalid ==
    [][(last'.op = "ConnectPeer" /\ (last'.peer.nil \/ last'.peer.ID = "")) =>
          /\ last'.err.code = InvalidParameter
          /\ activePeers' = activePeers
          /\ entries' = entries]_vars

\* C8 witness: a non-nil peer with an empty identifier was rejected while the
\* directory and the index were not empty.
C8_Witness ==
    /\ Called("ConnectPeer")
    /\ ~last.peer.nil /\ last.peer.ID = ""
    /\ last.err # NoErr
    /\ DOMAIN activePeers # {} /\ DOMAIN entries # {}

\* C9: DiscoverPeers returns a nil error, and the empty list for a key no
\* peer ever declared.
C9_DiscoverNeverFails ==
    /\ Called("DiscoverPeers") =>
          /\ last.err = NoErr
          /\ Declared(last.id) = {} => last.retPeers = <<>>
    /\ \A s \in DHTKeys :
          Declared(s) = {} => discovered(activePeers, entries, s) = <<>>

\* C9 witness: DiscoverPeers returned the empty list for a key nobody
\* declared while other keys had peers.
C9_Witness ==
    /\ Succeeded("DiscoverPeers")
    /\ Declared(last.id) = {}
    /\ last.retPeers = <<>>
    /\ DOMAIN entries # {}

----------------------------------------------------------------------------
(* Further claims about the scope registry, checked under SpecRegistry *)

\* C11 (as claimed): every successful PropagateState leaves UpdatedAt
\* strictly greater than it was before the call.
C11_UpdatedAtStrictlyIncreases ==
    [][(last'.op = "PropagateState" /\ last'.err = NoErr) =>
          scopes'[last'.id].UpdatedAt > scopes[last'.id].UpdatedAt]_vars

\* C11 (amended): every successful PropagateState sets UpdatedAt to the clock
\* reading of the call, which is never less than the value before the call,
\* and is greater exactly when the clock has advanced past that value.
C11_UpdatedAtNeverDecreases ==
    [][(last'.op = "PropagateState" /\ last'.err = NoErr) =>
          LET before == scopes[last'.id].UpdatedAt
              after == scopes'[last'.id].UpdatedAt
          IN /\ after = last'.t1
             /\ after >= before
             /\ (after > before) <=> (last'.t1 > before)
             /\ last'.t1 >= clock]_vars

\* C11 witness: PropagateState succeeded on a scope and left UpdatedAt equal
\* to CreatedAt, so UpdatedAt did not grow in the call.
C11_Witness ==
    /\ Succeeded("PropagateState")
    /\ scopes[last.id].UpdatedAt = scopes[last.id].CreatedAt
    /\ DOMAIN last.delta.kv # {}

\* C16: a RegisterScope whose identifier is already registered succeeds,
\* leaves the set of registered identifiers as it was and stores the passed
\* record (its fields, its state or the empty map for a nil state, the clock
\* readings of this call); a GetScope that follows returns that record.
C16_RegisterIsUpsert ==
    [][/\ (last'.op = "RegisterScope" /\ ~last'.scope.nil
           /\ last'.scope.ID \in DOMAIN scopes) =>
             LET new == last'.scope
                 rec == scopes'[new.ID]
             IN /\ last'.err = NoErr
                /\ DOMAIN scopes' = DOMAIN scopes
                /\ rec.ID = new.ID /\ rec.ParentID = new.ParentID
                /\ rec.Type = new.Type /\ rec.Peers = new.Peers
                /\ rec.State = (IF new.State.isNil THEN EmptyMap ELSE new.State)
                /\ rec.CreatedAt = last'.t1 /\ rec.UpdatedAt = last'.t2
                /\ \A id \in (DOMAIN scopes) \ {new.ID} : scopes'[id] = scopes[id]
       /\ (/\ last.op = "RegisterScope" /\ last.err = NoErr /\ last.existed
           /\ last'.op = "GetScope" /\ last'.id = last.scope.ID) =>
             /\ last'.err = NoErr
             /\ last'.retScope.State =
                   (IF last.scope.State.isNil THEN EmptyMap ELSE last.scope.State)
             /\ last'.retScope.CreatedAt = last.t1
             /\ last'.retScope.UpdatedAt = last.t2]_vars

\* C16 witness: a scope was registered again with a nil state at a later
\* time while another scope was registered; the stored state is empty.
C16_Witness ==
    /\ Succeeded("RegisterScope")
    /\ last.existed
    /\ last.scope.State.isNil
    /\ scopes[last.scope.ID].State = EmptyMap
    /\ scopes[last.scope.ID].CreatedAt = MaxClock
    /\ Cardinality(DOMAIN scopes) = 2

----------------------------------------------------------------------------
(* Further claims about the peer network, checked under SpecPeers *)

\* s is a prefix of t.
IsPrefix(s, t) == Len(s) <= Len(t) /\ \A i \in 1..Len(s) : s[i] = t[i]

\* n copies of x.
Copies(x, n) == [i \in 1..n |-> x]

\* C17: every step leaves every index entry with its earlier value as a
\* prefix; a successful ConnectPeer appends the peer's identifier to the
\* entry of each scope in ScopeIDs once per occurrence, and no other call
\* changes the index.
C17_IndexAppendOnly ==
    [][/\ \A k \in DHTKeys : IsPrefix(lookup(entries, k), lookup(entries', k))
       /\ (last'.op = "ConnectPeer" /\ last'.err = NoErr) =>
             \A k \in DHTKeys :
                lookup(entries', k) =
                   lookup(entries, k) \o
                   Copies(last'.peer.ID, Count(last'.peer.ScopeIDs, k))
       /\ (last'.op # "ConnectPeer" \/ last'.err # NoErr) => entries' = entries]_vars

\* C17 witness: p1 connected twice declaring s1 and is listed twice in the
\* entry of s1.
C17_Witness ==
    /\ Succeeded("ConnectPeer")
    /\ last.peer.ID = "p1" /\ last.existed
    /\ Count(lookup(entries, "s1"), "p1") = 2

\* C18: GetActivePeers returns no error and a list with exactly one record
\* per peer identifier of the successful ConnectPeer calls, the empty list
\* when there was none.
C18_ActivePeersOnePerID ==
    /\ \A peers \in activeLists(activePeers) :
          /\ Len(peers) = Cardinality(connectedIDs)
          /\ IDsOf(peers) = connectedIDs
          /\ \A i \in 1..Len(peers) : ~peers[i].nil
    /\ Called("GetActivePeers") =>
          /\ last.err = NoErr
          /\ Len(last.retPeers) = Cardinality(connectedIDs)
          /\ IDsOf(last.retPeers) = connectedIDs
          /\ connectedIDs = {} => last.retPeers = <<>>

\* C18 witness: GetActivePeers returned two records after p1 had connected
\* more than once.
C18_Witness ==
    /\ Called("GetActivePeers")
    /\ Len(last.retPeers) = 2
    /\ connectedIDs = PeerIDs
    /\ declCount["s1"]["p1"] + declCount["s2"]["p1"] >= 2

----------------------------------------------------------------------------
(* Claims about both components, checked under SpecJoint *)

\* C19: a ConnectPeer call, failed or successful, leaves every scope record
\* (its Peers list, State and timestamps) and the set of registered
\* identifiers as they were.
C19_ConnectLeavesRegistry ==
    [][last'.op = "ConnectPeer" => scopes' = scopes]_vars

\* C19 witness: p1 connected declaring s1 and s2 while both were registered;
\* the Peers list of s1 is still empty and s1 holds propagated state.
C19_Witness ==
    /\ Succeeded("ConnectPeer")
    /\ last.peer.ID = "p1" /\ last.peer.ScopeIDs = <<"s1", "s2">>
    /\ DOMAIN scopes = ScopeIDs
    /\ scopes["s1"].Peers = <<>>
    /\ scopes["s2"].Peers = <<"p1", "p2">>
    /\ scopes["s1"].State # EmptyMap

\* C20: every scope ID of a successful RegisterScope has a record in every
\* later state, so GetScope on it succeeds; every peer ID of a successful
\* ConnectPeer is in every list GetActivePeers can return in every later
\* state.
C20_RecordsNeverRemoved ==
    /\ \A id \in registeredIDs : id \in DOMAIN scopes
    /\ \A p \in connectedIDs :
          \A peers \in activeLists(activePeers) : p \in IDsOf(peers)
    /\ (Called("GetScope") /\ last.id \in registeredIDs) =>
          last.err = NoErr /\ ~last.retScope.nil /\ last.retScope.ID = last.id
    /\ Called("GetActivePeers") => connectedIDs \subseteq IDsOf(last.retPeers)

\* C20 witness: GetScope(s1) succeeded after s2 was registered later than the
\* last write to s1 and after both peers connected.
C20_Witness ==
    /\ Succeeded("GetScope")
    /\ last.id = "s1"
    /\ registeredIDs = ScopeIDs
    /\ connectedIDs = PeerIDs
    /\ scopes["s1"].UpdatedAt < scopes["s2"].CreatedAt

----------------------------------------------------------------------------
(* Interleaved calls: each thread runs one call at a time, one statement per
   step.  A step that takes a lock waits until the lock is free; the step
   that ends a method also runs its deferred unlock. *)

\* Mutant of canLock: Lock does not wait for the readers to leave.
canLockIgnoringReaders(m) == m.w = None

\* sync.RWMutex: Lock waits until there is no writer and no reader, RLock
\* until there is no writer.
canLock(m) == m.w = None /\ m.r = {}

\* Mutant of canRLock: RLock does not wait for the writer to leave.
canRLockIgnoringWriter(m) == TRUE

canRLock(m) == m.w = None
Lock(m, t) == [m EXCEPT !.w = t]

\* Mutant of Unlock: the write lock is not released.
UnlockSkipped(m, t) == m

Unlock(m, t) == [m EXCEPT !.w = None]
RLock(m, t) == [m EXCEPT !.r = @ \cup {t}]
RUnlock(m, t) == [m EXCEPT !.r = @ \ {t}]
Holds(m, t) == m.w = t \/ t \in m.r

\* The arguments of the interleaved calls.
ConcScopeInputs == {scope \in JointScopeInputs : scope.ID = "s1"}
ConcScopeIDs == {"s1"}
ConcPeerInputs == {MkPeer("p1", "a1", <<"s1", "s2">>), MkPeer("p1", "a2", <<"s1">>)}

Goto(t, label) == pc' = [pc EXCEPT ![t] = label]
Shared == <<scopes, activePeers, entries, clock>>

\* A thread that is in no call begins one.
CallRegisterScope(t, scope) ==
    /\ pc[t] = "idle" /\ RegisterScopeErr(scope) = NoErr
    /\ loc' = [loc EXCEPT ![t] = [IdleLoc EXCEPT !.op = "RegisterScope", !.scope = scope,
                                                 !.id = scope.ID]]
    /\ Goto(t, "rs_lock")
    /\ UNCHANGED <<Shared, last, hist, ext, mu, pmu, dmu, peerSnap>>

CallGetScope(t, scopeID) ==
    /\ pc[t] = "idle"
    /\ loc' = [loc EXCEPT ![t] = [IdleLoc EXCEPT !.op = "GetScope", !.id = scopeID]]
    /\ Goto(t, "gs_rlock")
    /\ UNCHANGED <<Shared, last, hist, ext, mu, pmu, dmu, peerSnap>>

CallPropagateState(t, scopeID, state) ==
    /\ pc[t] = "idle"
    /\ loc' = [loc EXCEPT ![t] = [IdleLoc EXCEPT !.op = "PropagateState", !.id = scopeID,
                                                 !.delta = state]]
    /\ Goto(t, "ps_lock")
    /\ UNCHANGED <<Shared, last, hist, ext, mu, pmu, dmu, peerSnap>>

\* The identifiers a ConnectPeer under way in thread u has still to append to
\* the entry of key k.
Pending(u, k) ==
    IF pc[u] \in {"cp_lock", "cp_put"} THEN Count(loc[u].peer.ScopeIDs, k)
    ELSE IF pc[u] \in {"cp_add_lock", "cp_add"}
    THEN Cardinality({i \in loc[u].i..Len(loc[u].peer.ScopeIDs) : loc[u].peer.ScopeIDs[i] = k})
    ELSE 0

\* A ConnectPeer begins only if the entries stay within MaxEntryLen once it
\* and the other thread's call have appended all their identifiers, so that a
\* call that has begun is never held up by the bound.
CallConnectPeer(t, peer) ==
    /\ pc[t] = "idle" /\ ConnectPeerErr(peer) = NoErr
    /\ \A k \in Range(peer.ScopeIDs) : \A u \in Threads \ {t} :
          Len(lookup(entries, k)) + Count(peer.ScopeIDs, k) + Pending(u, k) <= MaxEntryLen
    /\ loc' = [loc EXCEPT ![t] = [IdleLoc EXCEPT !.op = "ConnectPeer", !.peer = peer,
                                                 !.id = peer.ID]]
    /\ Goto(t, "cp_lock")
    /\ UNCHANGED <<Shared, last, hist, ext, mu, pmu, dmu, peerSnap>>

CallDiscoverPeers(t, scopeID) ==
    /\ pc[t] = "idle"
    /\ loc' = [loc EXCEPT ![t] = [IdleLoc EXCEPT !.op = "DiscoverPeers", !.id = scopeID]]
    /\ Goto(t, "dp_rlock")
    /\ UNCHANGED <<Shared, last, hist, ext, mu, pmu, dmu, peerSnap>>

CallGetActivePeers(t) ==
    /\ pc[t] = "idle"
    /\ loc' = [loc EXCEPT ![t] = [IdleLoc EXCEPT !.op = "GetActivePeers"]]
    /\ Goto(t, "gap_rlock")
    /\ UNCHANGED <<Shared, last, hist, ext, mu, pmu, dmu, peerSnap>>

\* RegisterScope: m.mu.Lock()
RsLock(t) ==
    /\ pc[t] = "rs_lock" /\ canLock(mu)
    /\ mu' = Lock(mu, t)
    /\ Goto(t, "rs_write")
    /\ UNCHANGED <<Shared, last, hist, ext, loc, pmu, dmu, peerSnap>>

\* RegisterScope: the two clock readings, the State default and the map
\* write, then the deferred Unlock.  A thread that still holds the pointer
\* GetScope returned for the record this replaces under the identifier holds
\* a record the registry no longer writes to.
RsWrite(t) ==
    /\ pc[t] = "rs_write"
    /\ \E t1 \in clock..MaxClock : \E t2 \in t1..MaxClock :
          /\ scopes' = Put(scopes, loc[t].id, registered(loc[t].scope, t1, t2))
          /\ clock' = t2
    /\ loc' = [u \in Threads |->
                 IF loc[u].held /\ loc[u].id = loc[t].id
                 THEN [loc[u] EXCEPT !.stale = TRUE] ELSE loc[u]]
    /\ mu' = Unlock(mu, t)
    /\ Goto(t, "idle")
    /\ UNCHANGED <<activePeers, entries, last, hist, ext, pmu, dmu, peerSnap>>

\* GetScope: m.mu.RLock()
GsRLock(t) ==
    /\ pc[t] = "gs_rlock" /\ canRLock(mu)
    /\ mu' = RLock(mu, t)
    /\ Goto(t, "gs_read")
    /\ UNCHANGED <<Shared, last, hist, ext, loc, pmu, dmu, peerSnap>>

\* GetScope: the map read and the deferred RUnlock; the call returns, on
\* success with the pointer to the stored record, which the caller then
\* holds.
GsRead(t) ==
    /\ pc[t] = "gs_read"
    /\ mu' = RUnlock(mu, t)
    /\ loc' = [loc EXCEPT ![t].held = loc[t].id \in DOMAIN scopes]
    /\ Goto(t, "idle")
    /\ UNCHANGED <<Shared, last, hist, ext, pmu, dmu, peerSnap>>

\* A caller that is in no call and holds the pointer GetScope returned comes
\* to its read of scope.State and scope.UpdatedAt through the pointer; it
\* holds no lock.
CallerBeginsRead(t) ==
    /\ pc[t] = "idle" /\ loc[t].held
    /\ Goto(t, "caller_read")
    /\ UNCHANGED <<Shared, last, hist, ext, loc, mu, pmu, dmu, peerSnap>>

\* Another thread is at PropagateState's merge loop with a non-empty update
\* for the record thread t holds the pointer to: its writes to scope.State
\* run while t reads that map.
OtherMergesState(t) ==
    \E u \in Threads \ {t} :
        /\ pc[u] = "ps_merge" /\ loc[u].id = loc[t].id
        /\ DOMAIN loc[u].delta.kv # {}

\* The caller's read through the pointer completes; the caller is done with
\* the record.
CallerReadCompletes(t) ==
    /\ pc[t] = "caller_read"
    /\ loc' = [loc EXCEPT ![t].held = FALSE, ![t].stale = FALSE]
    /\ Goto(t, "idle")
    /\ UNCHANGED <<Shared, last, hist, ext, mu, pmu, dmu, peerSnap>>

\* The caller's read runs during another thread's writes to the same map:
\* the runtime may detect the concurrent map read and map write and abort
\* the process, every thread with it.
CallerReadAborts(t) ==
    /\ pc[t] = "caller_read"
    /\ ~loc[t].stale /\ OtherMergesState(t)
    /\ pc' = [u \in Threads |-> "fatal"]
    /\ UNCHANGED <<Shared, last, hist, ext, loc, mu, pmu, dmu, peerSnap>>

\* PropagateState: m.mu.Lock()
PsLock(t) ==
    /\ pc[t] = "ps_lock" /\ canLock(mu)
    /\ mu' = Lock(mu, t)
    /\ Goto(t, "ps_check")
    /\ UNCHANGED <<Shared, last, hist, ext, loc, pmu, dmu, peerSnap>>

\* PropagateState: the map read; a missing scope returns the error through
\* the deferred Unlock.
PsCheck(t) ==
    /\ pc[t] = "ps_check"
    /\ IF loc[t].id \in DOMAIN scopes
       THEN Goto(t, "ps_merge") /\ UNCHANGED mu
       ELSE Goto(t, "idle") /\ mu' = Unlock(mu, t)
    /\ UNCHANGED <<Shared, last, hist, ext, loc, pmu, dmu, peerSnap>>

\* PropagateState: the merge loop and the UpdatedAt write.
PsMerge(t) ==
    /\ pc[t] = "ps_merge"
    /\ \E now \in clock..MaxClock :
          /\ scopes' = Put(scopes, loc[t].id,
                           propagated(scopes[loc[t].id], loc[t].delta, now))
          /\ clock' = now
    /\ Goto(t, "ps_hook")
    /\ UNCHANGED <<activePeers, entries, last, hist, ext, loc, mu, pmu, dmu, peerSnap>>

\* PropagateState: return m.propagateToPeers(...), then the deferred Unlock.
PsHook(t) ==
    /\ pc[t] = "ps_hook"
    /\ propagateToPeers(loc[t].id, loc[t].delta) = NoErr
    /\ mu' = Unlock(mu, t)
    /\ Goto(t, "idle")
    /\ UNCHANGED <<Shared, last, hist, ext, loc, pmu, dmu, peerSnap>>

\* ConnectPeer: m.peerNetwork.mu.Lock()
CpLock(t) ==
    /\ pc[t] = "cp_lock" /\ canLock(pmu)
    /\ pmu' = Lock(pmu, t)
    /\ Goto(t, "cp_put")
    /\ UNCHANGED <<Shared, last, hist, ext, loc, mu, dmu, peerSnap>>

\* ConnectPeer: the LastSeen write and the directory write.
CpPut(t) ==
    /\ pc[t] = "cp_put"
    /\ \E now \in clock..MaxClock :
          /\ activePeers' = Put(activePeers, loc[t].id, connected(loc[t].peer, now))
          /\ clock' = now
    /\ loc' = [loc EXCEPT ![t].i = 1]
    /\ Goto(t, IF loc[t].peer.ScopeIDs = <<>> THEN "cp_unlock" ELSE "cp_add_lock")
    /\ UNCHANGED <<scopes, entries, last, hist, ext, mu, pmu, dmu, peerSnap>>

\* ConnectPeer, in dht.add: d.mu.Lock()
CpAddLock(t) ==
    /\ pc[t] = "cp_add_lock" /\ canLock(dmu)
    /\ dmu' = Lock(dmu, t)
    /\ Goto(t, "cp_add")
    /\ UNCHANGED <<Shared, last, hist, ext, loc, mu, pmu, peerSnap>>

\* ConnectPeer, in dht.add: the append and the deferred d.mu.Unlock(); then
\* the next scope ID of the loop.
CpAdd(t) ==
    /\ pc[t] = "cp_add"
    /\ entries' = add(entries, loc[t].peer.ScopeIDs[loc[t].i], loc[t].id)
    /\ dmu' = Unlock(dmu, t)
    /\ loc' = [loc EXCEPT ![t].i = @ + 1]
    /\ Goto(t, IF loc[t].i < Len(loc[t].peer.ScopeIDs) THEN "cp_add_lock" ELSE "cp_unlock")
    /\ UNCHANGED <<scopes, activePeers, clock, last, hist, ext, mu, pmu, peerSnap>>

\* ConnectPeer: return nil through the deferred m.peerNetwork.mu.Unlock().
CpUnlock(t) ==
    /\ pc[t] = "cp_unlock"
    /\ pmu' = Unlock(pmu, t)
    /\ peerSnap' = [ap |-> activePeers, ent |-> entries]
    /\ Goto(t, "idle")
    /\ UNCHANGED <<Shared, last, hist, ext, loc, mu, dmu>>

\* DiscoverPeers: m.peerNetwork.mu.RLock()
DpRLock(t) ==
    /\ pc[t] = "dp_rlock" /\ canRLock(pmu)
    /\ pmu' = RLock(pmu, t)
    /\ Goto(t, "dp_lookup_rlock")
    /\ UNCHANGED <<Shared, last, hist, ext, loc, mu, dmu, peerSnap>>

\* DiscoverPeers, in dht.lookup: d.mu.RLock()
DpLookupRLock(t) ==
    /\ pc[t] = "dp_lookup_rlock" /\ canRLock(dmu)
    /\ dmu' = RLock(dmu, t)
    /\ Goto(t, "dp_lookup")
    /\ UNCHANGED <<Shared, last, hist, ext, loc, mu, pmu, peerSnap>>

\* DiscoverPeers, in dht.lookup: the copy of the entry and the deferred
\* d.mu.RUnlock().
DpLookup(t) ==
    /\ pc[t] = "dp_lookup"
    /\ loc' = [loc EXCEPT ![t].peerIDs = lookup(entries, loc[t].id)]
    /\ dmu' = RUnlock(dmu, t)
    /\ Goto(t, "dp_filter")
    /\ UNCHANGED <<Shared, last, hist, ext, mu, pmu, peerSnap>>

\* DiscoverPeers: the filter loop, the return and the deferred RUnlock.
DpFilter(t) ==
    /\ pc[t] = "dp_filter"
    /\ loc' = [loc EXCEPT ![t].retPeers = livePeers(activePeers, loc[t].peerIDs)]
    /\ pmu' = RUnlock(pmu, t)
    /\ Goto(t, "idle")
    /\ UNCHANGED <<Shared, last, hist, ext, mu, dmu, peerSnap>>

\* GetActivePeers: m.peerNetwork.mu.RLock()
GapRLock(t) ==
    /\ pc[t] = "gap_rlock" /\ canRLock(pmu)
    /\ pmu' = RLock(pmu, t)
    /\ Goto(t, "gap_read")
    /\ UNCHANGED <<Shared, last, hist, ext, loc, mu, dmu, peerSnap>>

\* GetActivePeers: the range over the directory, the return and the deferred
\* RUnlock.
GapRead(t) ==
    /\ pc[t] = "gap_read"
    /\ \E peers \in activeLists(activePeers) : loc' = [loc EXCEPT ![t].retPeers = peers]
    /\ pmu' = RUnlock(pmu, t)
    /\ Goto(t, "idle")
    /\ UNCHANGED <<Shared, last, hist, ext, mu, dmu, peerSnap>>

\* The steps of the six methods, from the call to the return.
NextCalls ==
    \/ \E t \in Threads : \E scope \in ConcScopeInputs : CallRegisterScope(t, scope)
    \/ \E t \in Threads : \E scopeID \in ConcScopeIDs : CallGetScope(t, scopeID)
    \/ \E t \in Threads : \E scopeID \in ConcScopeIDs : \E state \in JointDeltas :
          CallPropagateState(t, scopeID, state)
    \/ \E t \in Threads : \E peer \in ConcPeerInputs : CallConnectPeer(t, peer)
    \/ \E t \in Threads : \E scopeID \in JointKeys : CallDiscoverPeers(t, scopeID)
    \/ \E t \in Threads : CallGetActivePeers(t)
    \/ \E t \in Threads : RsLock(t)
    \/ \E t \in Threads : RsWrite(t)
    \/ \E t \in Threads : GsRLock(t)
    \/ \E t \in Threads : GsRead(t)
    \/ \E t \in Threads : PsLock(t)
    \/ \E t \in Threads : PsCheck(t)
    \/ \E t \in Threads : PsMerge(t)
    \/ \E t \in Threads : PsHook(t)
    \/ \E t \in Threads : CpLock(t)
    \/ \E t \in Threads : CpPut(t)
    \/ \E t \in Threads : CpAddLock(t)
    \/ \E t \in Threads : CpAdd(t)
    \/ \E t \in Threads : CpUnlock(t)
    \/ \E t \in Threads : DpRLock(t)
    \/ \E t \in Threads : DpLookupRLock(t)
    \/ \E t \in Threads : DpLookup(t)
    \/ \E t \in Threads : DpFilter(t)
    \/ \E t \in Threads : GapRLock(t)
    \/ \E t \in Threads : GapRead(t)

\* The six methods together with what their callers do through the
\* references they return.
NextConc ==
    \/ NextCalls
    \/ \E t \in Threads : CallerBeginsRead(t)
    \/ \E t \in Threads : CallerReadCompletes(t)
    \/ \E t \in Threads : CallerReadAborts(t)

\* Calls of all six methods by concurrent threads.
SpecConc == Init /\ [][NextConc]_vars

----------------------------------------------------------------------------
(* Claims about interleaved calls, checked under SpecConc *)

\* The statements of each method that run between taking and releasing the
\* component's lock.
RegistryWriteCS == {"rs_write", "ps_check", "ps_merge", "ps_hook"}
RegistryReadCS == {"gs_read"}
PeerWriteCS == {"cp_put", "cp_add_lock", "cp_add", "cp_unlock"}
PeerReadCS == {"dp_lookup_rlock", "dp_lookup", "dp_filter", "gap_read"}

WriterAlone(writeCS, readCS) ==
    \A t \in Threads : \A u \in Threads \ {t} :
        pc[t] \in writeCS => pc[u] \notin writeCS \cup readCS

\* C12: in each component (scope registry; peer network) no thread is inside
\* a writer's critical section (RegisterScope, PropagateState; ConnectPeer)
\* together with another thread inside any critical section of the same
\* component.
C12_WritersExclusive ==
    /\ WriterAlone(RegistryWriteCS, RegistryReadCS)
    /\ WriterAlone(PeerWriteCS, PeerReadCS)

\* A writer is inside its critical section while another thread waits at the
\* lock of the same component.
C12_Witness ==
    \E t \in Threads : \E u \in Threads \ {t} :
        \/ pc[t] \in RegistryWriteCS /\ pc[u] \in {"rs_lock", "gs_rlock", "ps_lock"}
        \/ pc[t] \in PeerWriteCS /\ pc[u] \in {"cp_lock", "dp_rlock", "gap_rlock"}

\* A thread reads a scope record through the pointer GetScope returned while
\* another thread is in PropagateState's writes to that same record.
UnlockedReadOverlapsWrite ==
    \E t \in Threads : \E u \in Threads \ {t} :
        /\ pc[t] = "caller_read" /\ ~loc[t].stale
        /\ pc[u] = "ps_merge" /\ loc[u].id = loc[t].id

\* C13: every access to a scope record's state mapping or timestamps happens
\* while the registry lock is held, including the reads a caller makes
\* through the reference GetScope returned; so no unlocked read of a scope's
\* state overlaps PropagateState's write to it.
C13_NoAccessOutsideLock ==
    /\ \A t \in Threads : pc[t] = "caller_read" => Holds(mu, t)
    /\ ~UnlockedReadOverlapsWrite

\* C14: during PropagateState the registry's write lock and the peer
\* network's lock are never held by the same thread at once, and the registry
\* write lock has been released when the fan-out hook propagateToPeers runs.
C14_RegistryLockReleasedBeforeHook ==
    \A t \in Threads :
        /\ ~(Holds(mu, t) /\ Holds(pmu, t))
        /\ pc[t] = "ps_hook" => ~Holds(mu, t)

\* What thread t's read step obtains is what the peer network held when the
\* last completed ConnectPeer returned.
ReadSeesCompletedConnects(t) ==
    /\ (pc[t] = "dp_lookup" /\ pc'[t] = "dp_filter")
          => loc'[t].peerIDs = lookup(peerSnap.ent, loc[t].id)
    /\ (pc[t] = "dp_filter" /\ pc'[t] = "idle")
          => loc'[t].retPeers = discovered(peerSnap.ap, peerSnap.ent, loc[t].id)
    /\ (pc[t] = "gap_read" /\ pc'[t] = "idle")
          => loc'[t].retPeers \in activeLists(peerSnap.ap)

\* C15: ConnectPeer is atomic for DiscoverPeers and GetActivePeers: every
\* index read and every result of a read that runs alongside ConnectPeer
\* calls is computed from the directory and the index as some completed
\* ConnectPeer left them (or from the empty network), never from a state in
\* which a connecting peer is only partly recorded.
C15_ConnectAtomicForReaders ==
    [][\A t \in Threads : ReadSeesCompletedConnects(t)]_vars

\* A ConnectPeer of a peer declaring two scopes has indexed the first scope
\* only, while another thread's DiscoverPeers or GetActivePeers is waiting
\* for the peer network's lock.
C15_Witness ==
    \E t \in Threads : \E u \in Threads \ {t} :
        /\ pc[t] = "cp_add_lock" /\ loc[t].i = 2 /\ Len(loc[t].peer.ScopeIDs) = 2
        /\ entries # peerSnap.ent /\ activePeers # peerSnap.ap
        /\ pc[u] \in {"dp_rlock", "gap_rlock"}

----------------------------------------------------------------------------
(* Further claims about the scope registry *)

\* C21: every scope held by the registry has a non-nil state mapping
\* (possibly empty), so the merge loop of PropagateState never writes into a
\* nil map.
C21_StateNeverNil == \A id \in DOMAIN scopes : ~scopes[id].State.isNil

\* PropagateState has merged a non-empty delta into a scope that was
\* registered with no state of its own.
C21_Witness ==
    /\ Succeeded("PropagateState")
    /\ last.delta.kv # <<>>
    /\ \E scope \in ScopeInputs :
          /\ scope.ID = last.id /\ scope.State.isNil
          /\ scopes[last.id].CreatedAt = MaxClock
          /\ DOMAIN scopes[last.id].State.kv = DOMAIN last.delta.kv

----------------------------------------------------------------------------
(* The scope hierarchy scenario: three scopes, two peers, one propagation,
   then the three reads.  Each registration and each connection is made
   once, in any order; the propagation follows them; the reads follow it. *)

MkScope(id, parent, type) ==
    [nil |-> FALSE, ID |-> id, ParentID |-> parent, Type |-> type, Peers |-> <<>>,
     State |-> NilMap, CreatedAt |-> ZeroTime, UpdatedAt |-> ZeroTime]
ScenarioScopes ==
    {MkScope("global", "", "global"), MkScope("org-1", "global", "org"),
     MkScope("project-1", "org-1", "project")}
ScenarioPeers ==
    {MkPeer("peer-1", "addr1", <<"org-1">>), MkPeer("peer-2", "addr2", <<"project-1">>)}
ScenarioState == MkMap([k \in {"status"} |-> "active"])

ScenarioSetUp ==
    /\ registeredIDs = {scope.ID : scope \in ScenarioScopes}
    /\ connectedIDs = {peer.ID : peer \in ScenarioPeers}
ScenarioPropagated == last.op \in {"PropagateState", "GetScope", "GetActivePeers", "DiscoverPeers"}

NextScenario ==
    \/ \E scope \in ScenarioScopes : scope.ID \notin registeredIDs /\ RegisterScope(scope)
    \/ \E peer \in ScenarioPeers : peer.ID \notin connectedIDs /\ ConnectPeer(peer)
    \/ ScenarioSetUp /\ ~ScenarioPropagated /\ PropagateState("org-1", ScenarioState)
    \/ ScenarioPropagated /\ GetScope("org-1")
    \/ ScenarioPropagated /\ GetActivePeers
    \/ ScenarioPropagated /\ DiscoverPeers("org-1")

SpecScenario == Init /\ [][NextScenario]_vars

\* C22: after registering global, org-1 and project-1, connecting peer-1
\* declaring [org-1] and peer-2 declaring [project-1], and propagating
\* {status: active} to org-1: GetScope(org-1) succeeds with State[status] =
\* active, GetActivePeers returns two peers, and DiscoverPeers(org-1) returns
\* exactly one peer, peer-1.
C22_ScenarioReads ==
    /\ Called("PropagateState") => last.err = NoErr
    /\ Called("GetScope") =>
          /\ last.err = NoErr
          /\ "status" \in DOMAIN last.retScope.State.kv
          /\ last.retScope.State.kv["status"] = "active"
    /\ Called("GetActivePeers") =>
          /\ Len(last.retPeers) = 2
          /\ {last.retPeers[i].ID : i \in 1..2} = {"peer-1", "peer-2"}
    /\ Called("DiscoverPeers") =>
          /\ last.err = NoErr
          /\ Len(last.retPeers) = 1
          /\ last.retPeers[1].ID = "peer-1"

\* The scenario has run to its last read.
C22_Witness ==
    /\ Called("DiscoverPeers")
    /\ Len(last.retPeers) = 1
    /\ DOMAIN scopes = {"global", "org-1", "project-1"}
    /\ scopes["org-1"].State = ScenarioState
    /\ scopes["org-1"].ParentID = "global"
    /\ DOMAIN activePeers = {"peer-1", "peer-2"}

----------------------------------------------------------------------------
(* ATenSpace: the Space of atoms, links, tensors and domain boundaries.
   Each exported method is one step: it holds s.mu for its whole body. *)

MaxLinks == 2         \* s.links holds at most this many links
MaxBoundaries == 2    \* s.boundaries holds at most this many boundaries

\* What a call on the space leaves alone.
outsideSpace == <<scopes, activePeers, entries, hist, conc, Variables, Equations, smu>>

\* The error AddAtom returns before taking the lock, or NoErr.
AddAtomErr(atom) ==
    IF atom.nil THEN Err(InvalidParameter, "atom is nil")
    ELSE IF atom.ID = "" THEN Err(InvalidParameter, "atom ID is empty")
    ELSE NoErr

\* The record AddAtom stores: CreatedAt is the reading t of time.Now(); a nil
\* Attributes becomes an empty map.
added(atom, t) ==
    [atom EXCEPT !.CreatedAt = t,
                 !.Attributes = IF atom.Attributes.isNil THEN EmptyMap ELSE atom.Attributes]

AddAtom(atom) ==
    /\ UNCHANGED outsideSpace
    /\ LET err == AddAtomErr(atom) IN
       IF err # NoErr
       THEN /\ last' = [NoCall EXCEPT !.op = "AddAtom", !.atom = atom, !.err = err]
            /\ UNCHANGED <<atoms, links, tensorStore, boundaries, clock>>
       ELSE \E t \in clock..MaxClock :
               /\ atoms' = Put(atoms, atom.ID, added(atom, t))
               /\ clock' = t
               /\ last' = [NoCall EXCEPT !.op = "AddAtom", !.atom = atom, !.t1 = t,
                                         !.existed = atom.ID \in DOMAIN atoms]
               /\ UNCHANGED <<links, tensorStore, boundaries>>

\* Mutant of AddLinkErr: the target atom is not looked up.
AddLinkErrNoTargetCheck(as, link) ==
    IF link.nil THEN Err(InvalidParameter, "link is nil")
    ELSE IF link.Source = "" \/ link.Target = ""
         THEN Err(InvalidParameter, "link source or target is empty")
    ELSE IF link.Source \notin DOMAIN as THEN Err(InvalidParameter, "source atom not found")
    ELSE NoErr

\* The error AddLink returns: the argument checks, then under the lock the
\* lookups of the source and the target atom.
AddLinkErr(as, link) ==
    IF link.nil THEN Err(InvalidParameter, "link is nil")
    ELSE IF link.Source = "" \/ link.Target = ""
         THEN Err(InvalidParameter, "link source or target is empty")
    ELSE IF link.Source \notin DOMAIN as THEN Err(InvalidParameter, "source atom not found")
    ELSE IF link.Target \notin DOMAIN as THEN Err(InvalidParameter, "target atom not found")
    ELSE NoErr

AddLink(link) ==
    /\ UNCHANGED outsideSpace
    /\ LET err == AddLinkErr(atoms, link) IN
       IF err # NoErr
       THEN /\ last' = [NoCall EXCEPT !.op = "AddLink", !.link = link, !.err = err]
            /\ UNCHANGED <<atoms, links, tensorStore, boundaries, clock>>
       ELSE /\ Len(links) < MaxLinks
            /\ \E t \in clock..MaxClock :
                  /\ links' = Append(links, [link EXCEPT !.CreatedAt = t])
                  /\ clock' = t
                  /\ last' = [NoCall EXCEPT !.op = "AddLink", !.link = link, !.t1 = t]
                  /\ UNCHANGED <<atoms, tensorStore, boundaries>>

\* The error AttachTensor returns: the nil check, then under the lock the
\* lookup of the atom.
AttachTensorErr(as, atomID, tensor) ==
    IF tensor.nil THEN Err(InvalidParameter, "tensor is nil")
    ELSE IF atomID \notin DOMAIN as THEN Err(InvalidParameter, "atom not found")
    ELSE NoErr

AttachTensor(atomID, tensor) ==
    /\ UNCHANGED outsideSpace
    /\ LET err == AttachTensorErr(atoms, atomID, tensor) IN
       IF err # NoErr
       THEN /\ last' = [NoCall EXCEPT !.op = "AttachTensor", !.id = atomID,
                                      !.tensor = tensor, !.err = err]
            /\ UNCHANGED <<atoms, links, tensorStore, boundaries, clock>>
       ELSE /\ atoms' = [atoms EXCEPT ![atomID].TensorID = tensor.ID]
            /\ tensorStore' = Put(tensorStore, tensor.ID, tensor)
            /\ last' = [NoCall EXCEPT !.op = "AttachTensor", !.id = atomID, !.tensor = tensor]
            /\ UNCHANGED <<links, boundaries, clock>>

\* The error DefineBoundary returns before taking the lock, or NoErr.
DefineBoundaryErr(boundary) ==
    IF boundary.nil THEN Err(InvalidParameter, "boundary is nil")
    ELSE IF boundary.ID = "" THEN Err(InvalidParameter, "boundary ID is empty")
    ELSE NoErr

\* The record DefineBoundary appends: a nil Properties becomes an empty map.
defined(boundary) ==
    [boundary EXCEPT !.Properties = IF boundary.Properties.isNil THEN EmptyMap
                                    ELSE boundary.Properties]

DefineBoundary(boundary) ==
    /\ UNCHANGED outsideSpace
    /\ LET err == DefineBoundaryErr(boundary) IN
       IF err # NoErr
       THEN /\ last' = [NoCall EXCEPT !.op = "DefineBoundary", !.boundary = boundary,
                                      !.err = err]
            /\ UNCHANGED <<atoms, links, tensorStore, boundaries, clock>>
       ELSE /\ Len(boundaries) < MaxBoundaries
            /\ boundaries' = Append(boundaries, defined(boundary))
            /\ last' = [NoCall EXCEPT !.op = "DefineBoundary", !.boundary = boundary]
            /\ UNCHANGED <<atoms, links, tensorStore, clock>>

spaceUnchanged == UNCHANGED <<atoms, links, tensorStore, boundaries, clock>>

GetAtom(atomID) ==
    /\ UNCHANGED outsideSpace /\ spaceUnchanged
    /\ last' = IF atomID \in DOMAIN atoms
               THEN [NoCall EXCEPT !.op = "GetAtom", !.id = atomID, !.retAtom = atoms[atomID]]
               ELSE [NoCall EXCEPT !.op = "GetAtom", !.id = atomID,
                                   !.err = Err(InvalidParameter, "atom not found")]

\* The links GetLinksForAtom returns: those with atomID as source or target,
\* in list order.
linksFor(ls, atomID) ==
    LET touches(link) == link.Source = atomID \/ link.Target = atomID
    IN SelectSeq(ls, touches)

GetLinksForAtom(atomID) ==
    /\ UNCHANGED outsideSpace /\ spaceUnchanged
    /\ last' = [NoCall EXCEPT !.op = "GetLinksForAtom", !.id = atomID,
                              !.retLinks = linksFor(links, atomID)]

\* What GetTensor returns: the lookup of the atom, of its TensorID, and of the
\* tensor stored under that identifier.
getTensor(as, store, atomID) ==
    IF atomID \notin DOMAIN as
    THEN [tensor |-> NilTensor, err |-> Err(InvalidParameter, "atom not found")]
    ELSE IF as[atomID].TensorID = ""
    THEN [tensor |-> NilTensor, err |-> Err(InvalidParameter, "atom has no tensor")]
    ELSE IF as[atomID].TensorID \notin DOMAIN store
    THEN [tensor |-> NilTensor, err |-> Err(InvalidParameter, "tensor not found")]
    ELSE [tensor |-> store[as[atomID].TensorID], err |-> NoErr]

GetTensor(atomID) ==
    /\ UNCHANGED outsideSpace /\ spaceUnchanged
    /\ LET got == getTensor(atoms, tensorStore, atomID) IN
       last' = [NoCall EXCEPT !.op = "GetTensor", !.id = atomID,
                              !.retTensor = got.tensor, !.err = got.err]

GetBoundaries ==
    /\ UNCHANGED outsideSpace /\ spaceUnchanged
    /\ last' = [NoCall EXCEPT !.op = "GetBoundaries", !.retBoundaries = boundaries]

\* The position in bs of the first boundary with the identifier, or 0.
RECURSIVE findBoundary(_, _, _)
findBoundary(bs, boundaryID, i) ==
    IF i > Len(bs) THEN 0
    ELSE IF bs[i].ID = boundaryID THEN i
    ELSE findBoundary(bs, boundaryID, i + 1)

\* Mutant of liveAtoms: an identifier with no atom yields a nil entry.
RECURSIVE liveAtomsPadded(_, _)
liveAtomsPadded(as, atomIDs) ==
    IF atomIDs = <<>> THEN <<>>
    ELSE <<IF Head(atomIDs) \in DOMAIN as THEN as[Head(atomIDs)] ELSE NilAtom>>
         \o liveAtomsPadded(as, Tail(atomIDs))

\* The filter loop of QueryByBoundary: the atoms of the listed identifiers
\* that are present in s.atoms, in list order.
RECURSIVE liveAtoms(_, _)
liveAtoms(as, atomIDs) ==
    IF atomIDs = <<>> THEN <<>>
    ELSE (IF Head(atomIDs) \in DOMAIN as THEN <<as[Head(atomIDs)]>> ELSE <<>>)
         \o liveAtoms(as, Tail(atomIDs))

QueryByBoundary(boundaryID) ==
    /\ UNCHANGED outsideSpace /\ spaceUnchanged
    /\ LET i == findBoundary(boundaries, boundaryID, 1) IN
       last' = IF i = 0
               THEN [NoCall EXCEPT !.op = "QueryByBoundary", !.id = boundaryID,
                                   !.err = Err(InvalidParameter, "boundary not found")]
               ELSE [NoCall EXCEPT !.op = "QueryByBoundary", !.id = boundaryID,
                                   !.retAtoms = liveAtoms(atoms, boundaries[i].AtomIDs)]

AtomLookupIDs == AtomIDs \cup {"a3"}
BoundaryLookupIDs == {"b1", "b2", "b3", ""}

\* The space is checked in three parts, each with AddAtom: its links, its
\* tensors, and its boundaries.
NextLinks ==
    \/ \E atom \in AtomInputs : AddAtom(atom)
    \/ \E link \in LinkInputs : AddLink(link)
    \/ \E atomID \in AtomLookupIDs : GetLinksForAtom(atomID)

SpecLinks == Init /\ [][NextLinks]_vars

NextTensors ==
    \/ \E atom \in AtomInputs : AddAtom(atom)
    \/ \E atomID \in AtomLookupIDs : \E tensor \in TensorInputs : AttachTensor(atomID, tensor)
    \/ \E atomID \in AtomLookupIDs : GetAtom(atomID)
    \/ \E atomID \in AtomLookupIDs : GetTensor(atomID)

SpecTensors == Init /\ [][NextTensors]_vars

NextBoundaries ==
    \/ \E atom \in AtomInputs : AddAtom(atom)
    \/ \E boundary \in BoundaryInputs : DefineBoundary(boundary)
    \/ GetBoundaries
    \/ \E boundaryID \in BoundaryLookupIDs : QueryByBoundary(boundaryID)

SpecBoundaries == Init /\ [][NextBoundaries]_vars

----------------------------------------------------------------------------
(* Claims about the space *)

LinksEndInAtoms ==
    \A i \in 1..Len(links) :
        links[i].Source \in DOMAIN atoms /\ links[i].Target \in DOMAIN atoms

\* C26: AddLink succeeds only when the link is non-nil, its source and target
\* are non-empty and both name atoms of the space, and then appends the link;
\* a failing AddLink leaves the link list unchanged; so both endpoints of
\* every stored link are atoms of the space.
C26_LinksJoinAtoms ==
    [][/\ last'.op = "AddLink" =>
             IF last'.err = NoErr
             THEN /\ ~last'.link.nil
                  /\ last'.link.Source # "" /\ last'.link.Target # ""
                  /\ last'.link.Source \in DOMAIN atoms
                  /\ last'.link.Target \in DOMAIN atoms
                  /\ Len(links') = Len(links) + 1
                  /\ SubSeq(links', 1, Len(links)) = links
                  /\ links'[Len(links')].Source = last'.link.Source
                  /\ links'[Len(links')].Target = last'.link.Target
             ELSE links' = links
       /\ LinksEndInAtoms']_vars

\* Links have been added between atoms of the space, and an AddLink naming an
\* atom that is not in the space has just failed.
C26_Witness ==
    /\ Called("AddLink") /\ last.err # NoErr
    /\ ~last.link.nil /\ last.link.Source # "" /\ last.link.Target # ""
    /\ Len(links) = MaxLinks
    /\ links[1].Source # links[1].Target

\* A step that is a call of AttachTensor or AddAtom on the atom identifier.
Reattaches(atomID) ==
    \/ last'.op = "AttachTensor" /\ last'.id = atomID
    \/ last'.op = "AddAtom" /\ last'.atom.ID = atomID

\* A GetTensor that directly follows a successful AttachTensor on the same
\* atom returns the attached tensor.
AttachThenGet ==
    (/\ last.op = "AttachTensor" /\ last.err = NoErr
     /\ last'.op = "GetTensor" /\ last'.id = last.id)
        => last'.err = NoErr /\ last'.retTensor = last.tensor

\* What GetTensor would return for an atom changes only in a call of
\* AttachTensor or AddAtom on that atom.
TensorKept ==
    \A atomID \in AtomLookupIDs :
        ~Reattaches(atomID) =>
            getTensor(atoms', tensorStore', atomID) = getTensor(atoms, tensorStore, atomID)

\* C27: after a successful AttachTensor(atomID, t), GetTensor(atomID)
\* succeeds and returns t, and keeps returning t through every later call
\* that is not AttachTensor or AddAtom on atomID, whatever identifier t
\* carries and whatever is attached to other atoms.
C27_AttachedTensorKept == [][AttachThenGet /\ TensorKept]_vars

\* The two halves of C27 on their own.
C27_AttachThenGetOnly == [][AttachThenGet]_vars
C27_TensorKeptOnly == [][TensorKept]_vars

\* The positions in s.boundaries of the boundaries with the identifier.
DefinedAt(boundaryID) == {i \in 1..Len(boundaries) : boundaries[i].ID = boundaryID}
Earliest(S) == CHOOSE i \in S : \A j \in S : i <= j
PresentIDs(atomIDs) == LET present(x) == x \in DOMAIN atoms IN SelectSeq(atomIDs, present)

\* C28: QueryByBoundary(b) fails with no result exactly when no boundary with
\* identifier b has been defined; otherwise it returns the atoms, in the order
\* of the AtomIDs of the earliest-defined boundary with identifier b, of
\* exactly those listed identifiers that are atoms of the space.
C28_QueryByBoundary ==
    Called("QueryByBoundary") =>
        IF DefinedAt(last.id) = {}
        THEN last.err # NoErr /\ last.retAtoms = <<>>
        ELSE /\ last.err = NoErr
             /\ LET ids == PresentIDs(boundaries[Earliest(DefinedAt(last.id))].AtomIDs)
                IN last.retAtoms = [j \in 1..Len(ids) |-> atoms[ids[j]]]

\* Two boundaries were defined with the same identifier; the query returned
\* the atoms of the earlier one, skipping a listed identifier that has no
\* atom, and the later one would have given a different list.
C28_Witness ==
    /\ Succeeded("QueryByBoundary")
    /\ Cardinality(DefinedAt(last.id)) = 2
    /\ Len(last.retAtoms) = 1
    /\ Len(boundaries[1].AtomIDs) = 2
    /\ last.retAtoms # liveAtoms(atoms, boundaries[2].AtomIDs)

----------------------------------------------------------------------------
(* Tensor logic framework: Variables and Equations.  Its methods take no
   lock; called from one thread each is one step. *)

outsideTensorLogic ==
    <<scopes, activePeers, entries, clock, hist, conc, atoms, links, tensorStore, boundaries,
      smu>>

\* The error RegisterVariable returns, or NoErr.
RegisterVariableErr(v) ==
    IF v.nil THEN Err(InvalidParameter, "variable is nil")
    ELSE IF v.Name = "" THEN Err(InvalidParameter, "variable name is empty")
    ELSE NoErr

RegisterVariable(v) ==
    /\ UNCHANGED outsideTensorLogic
    /\ LET err == RegisterVariableErr(v) IN
       /\ last' = [NoCall EXCEPT !.op = "RegisterVariable", !.variable = v, !.err = err]
       /\ Variables' = IF err = NoErr THEN Put(Variables, v.Name, v) ELSE Variables
       /\ UNCHANGED Equations

MaxEquations == 2    \* f.Equations holds at most this many equations

DefineEquation(eq) ==
    /\ UNCHANGED outsideTensorLogic
    /\ IF eq.nil
       THEN /\ last' = [NoCall EXCEPT !.op = "DefineEquation", !.eq = eq,
                                      !.err = Err(InvalidParameter, "equation is nil")]
            /\ UNCHANGED <<Variables, Equations>>
       ELSE /\ Len(Equations) < MaxEquations
            /\ Equations' = Append(Equations, eq)
            /\ last' = [NoCall EXCEPT !.op = "DefineEquation", !.eq = eq]
            /\ UNCHANGED Variables

\* What Evaluate returns: a new Variable with the stored one's fields and a
\* copy of its Data, or the error of a name that is not registered.
evaluated(vs, varName) ==
    IF varName \notin DOMAIN vs
    THEN [v |-> NilVariable, err |-> Err(InvalidParameter, "variable not found")]
    ELSE [v |-> [nil |-> FALSE, Name |-> vs[varName].Name, Indices |-> vs[varName].Indices,
                 Shape |-> vs[varName].Shape,
                 Data |-> [i \in 1..Len(vs[varName].Data) |-> vs[varName].Data[i]],
                 Type |-> vs[varName].Type],
          err |-> NoErr]

Evaluate(varName) ==
    /\ UNCHANGED outsideTensorLogic
    /\ LET res == evaluated(Variables, varName) IN
       last' = [NoCall EXCEPT !.op = "Evaluate", !.id = varName, !.retVar = res.v,
                              !.err = res.err]
    /\ UNCHANGED <<Variables, Equations>>

VariableLookupIDs == {"s1", "s3", ""}

NextTensorLogic ==
    \/ \E v \in VariableInputs : RegisterVariable(v)
    \/ \E eq \in EquationInputs : DefineEquation(eq)
    \/ \E varName \in VariableLookupIDs : Evaluate(varName)

\* Calls on the tensor logic framework alone, from one thread.
SpecTensorLogic == Init /\ [][NextTensorLogic]_vars

----------------------------------------------------------------------------
(* UnifiedFramework: the facade over the tensor logic framework, the
   hypermind architecture and the space.  Called from one thread, each
   facade method is one step that runs its component calls in order. *)

\* The records CreateBoundaryScope builds for scopeID.
scopeVar(scopeID) == MkVariable(scopeID, <<"entity", "property">>, <<>>, "hybrid")
distScope(scopeID, scopeType) == MkScope(scopeID, "", scopeType)
scopeAtom(scopeID) == MkAtom(scopeID, "aggregate", NilMap)

\* Mutant of scopeTensor: the tensor is built with no identifier.
scopeTensorNoID(scopeID) ==
    [nil |-> FALSE, ID |-> "", Shape |-> <<10, 10>>, Data |-> [i \in 1..100 |-> 0],
     DType |-> "float64", Device |-> "cpu"]

scopeTensor(scopeID) ==
    [nil |-> FALSE, ID |-> scopeID \o "_tensor", Shape |-> <<10, 10>>,
     Data |-> [i \in 1..100 |-> 0], DType |-> "float64", Device |-> "cpu"]

\* The first error among the four component calls of CreateBoundaryScope, with
\* the number of calls that succeeded before it.
createSteps(scopeID, scopeType) ==
    LET e1 == RegisterVariableErr(scopeVar(scopeID))
        e2 == RegisterScopeErr(distScope(scopeID, scopeType))
        e3 == AddAtomErr(scopeAtom(scopeID))
    IN IF e1 # NoErr THEN [done |-> 0, err |-> e1]
       ELSE IF e2 # NoErr THEN [done |-> 1, err |-> e2]
       ELSE IF e3 # NoErr THEN [done |-> 2, err |-> e3]
       ELSE [done |-> 4, err |-> NoErr]

CreateBoundaryScope(scopeID, scopeType) ==
    /\ UNCHANGED <<activePeers, entries, declCount, connectedIDs, conc, Equations, links,
                   boundaries, smu>>
    /\ LET res == createSteps(scopeID, scopeType) IN
       /\ last' = [NoCall EXCEPT !.op = "CreateBoundaryScope", !.id = scopeID,
                                 !.type = scopeType, !.err = res.err]
       /\ Variables' = IF res.done >= 1 THEN Put(Variables, scopeID, scopeVar(scopeID))
                       ELSE Variables
       /\ IF res.done < 4
          THEN UNCHANGED <<scopes, registeredIDs, atoms, tensorStore, clock>>
          ELSE \E t1 \in clock..MaxClock : \E t2 \in t1..MaxClock : \E t3 \in t2..MaxClock :
                  /\ scopes' = Put(scopes, scopeID,
                                   registered(distScope(scopeID, scopeType), t1, t2))
                  /\ registeredIDs' = registeredIDs \cup {scopeID}
                  /\ atoms' = Put(atoms, scopeID,
                                  [added(scopeAtom(scopeID), t3)
                                      EXCEPT !.TensorID = scopeTensor(scopeID).ID])
                  /\ tensorStore' = Put(tensorStore, scopeTensor(scopeID).ID,
                                        scopeTensor(scopeID))
                  /\ clock' = t3

\* Mutant of queried: the parts are filled in only when all three lookups
\* succeed.
queriedAllOrNone(scopeID) ==
    IF scopeID \in DOMAIN Variables /\ scopeID \in DOMAIN scopes /\ scopeID \in DOMAIN atoms
    THEN [nil |-> FALSE, ID |-> scopeID, TensorVariable |-> evaluated(Variables, scopeID).v,
          DistributedScope |-> scopes[scopeID], Atom |-> atoms[scopeID]]
    ELSE [NilInfo EXCEPT !.nil = FALSE, !.ID = scopeID]

\* The info record of QueryScope: each part is left nil when its lookup fails.
queried(scopeID) ==
    [nil |-> FALSE, ID |-> scopeID,
     TensorVariable |-> evaluated(Variables, scopeID).v,
     DistributedScope |-> IF scopeID \in DOMAIN scopes THEN scopes[scopeID] ELSE NilScope,
     Atom |-> IF scopeID \in DOMAIN atoms THEN atoms[scopeID] ELSE NilAtom]

QueryScope(scopeID) ==
    /\ last' = [NoCall EXCEPT !.op = "QueryScope", !.id = scopeID, !.info = queried(scopeID)]
    /\ UNCHANGED <<scopes, activePeers, entries, clock, hist, conc, ext>>

DefineDomainBoundary(boundaryID, boundaryType, atomIDs) ==
    DefineBoundary(MkBoundary(boundaryID, boundaryType, atomIDs))

\* Mutant of attributesMerged: the atom's attributes are left as they were.
attributesKept(atom, state) == atom

\* for k, v := range state { atom.Attributes[k] = v }
attributesMerged(atom, state) == [atom EXCEPT !.Attributes = MergeState(@, state)]

\* UnifiedFramework.PropagateState: Hypermind.PropagateState, then GetAtom,
\* then the writes to the atom's Attributes.
UnifiedPropagateState(scopeID, state) ==
    /\ UNCHANGED <<activePeers, entries, hist, conc, Variables, Equations, links,
                   tensorStore, boundaries, smu>>
    /\ IF scopeID \notin DOMAIN scopes
       THEN /\ last' = [NoCall EXCEPT !.op = "UnifiedFramework.PropagateState",
                                      !.id = scopeID, !.delta = state,
                                      !.err = scopeNotFound(scopeID)]
            /\ UNCHANGED <<scopes, atoms, clock>>
       ELSE \E t \in clock..MaxClock :
               /\ scopes' = Put(scopes, scopeID, propagated(scopes[scopeID], state, t))
               /\ clock' = t
               /\ IF scopeID \notin DOMAIN atoms
                  THEN /\ last' = [NoCall EXCEPT !.op = "UnifiedFramework.PropagateState",
                                                 !.id = scopeID, !.delta = state, !.t1 = t,
                                                 !.err = Err(InvalidParameter, "atom not found")]
                       /\ UNCHANGED atoms
                  ELSE /\ last' = [NoCall EXCEPT !.op = "UnifiedFramework.PropagateState",
                                                 !.id = scopeID, !.delta = state, !.t1 = t]
                       /\ atoms' = Put(atoms, scopeID, attributesMerged(atoms[scopeID], state))

\* The arguments of the facade calls, and of the calls made on the parts
\* directly through the facade's exported fields: s1 is created through the
\* facade, s2 part by part, s3 never.
UnifiedIDs == {"s1", ""}
UnifiedLookupIDs == {"s1", "s2", "s3"}
UnifiedPropagateIDs == {"s1", "s2"}
UnifiedDeltas == JointDeltas \cup {MkMap([k \in {"k1", "k2"} |-> "v2"])}

NextUnified ==
    \/ \E scopeID \in UnifiedIDs : CreateBoundaryScope(scopeID, "org")
    \/ \E scopeID \in UnifiedLookupIDs : QueryScope(scopeID)
    \/ \E scopeID \in UnifiedPropagateIDs : \E state \in UnifiedDeltas :
          UnifiedPropagateState(scopeID, state)
    \/ RegisterScope(MkScope("s2", "s1", "project"))
    \/ RegisterVariable(MkVariable("s2", <<>>, <<>>, "symbolic"))
    \/ AddAtom(MkAtom("s2", "entity", NilMap))

SpecUnified == Init /\ [][NextUnified]_vars

----------------------------------------------------------------------------
(* Claims about the facade, checked under SpecUnified *)

\* C23: after a successful CreateBoundaryScope(id, type) the scope exists in
\* all three frameworks: Evaluate(id), GetScope(id) and GetAtom(id) succeed,
\* returning records named id, and GetTensor(id) returns the tensor attached
\* to the atom.
C23_CreateInAllThree ==
    Succeeded("CreateBoundaryScope") =>
        /\ evaluated(Variables, last.id).err = NoErr
        /\ evaluated(Variables, last.id).v.Name = last.id
        /\ last.id \in DOMAIN scopes /\ scopes[last.id].ID = last.id
        /\ scopes[last.id].Type = last.type
        /\ last.id \in DOMAIN atoms /\ atoms[last.id].ID = last.id
        /\ getTensor(atoms, tensorStore, last.id).err = NoErr
        /\ getTensor(atoms, tensorStore, last.id).tensor.ID = atoms[last.id].TensorID
        /\ getTensor(atoms, tensorStore, last.id).tensor = scopeTensor(last.id)

\* CreateBoundaryScope has succeeded on s1 while s2, built part by part and
\* already propagated to, is in two of the frameworks only.
C23_Witness ==
    /\ Succeeded("CreateBoundaryScope")
    /\ last.id = "s1"
    /\ "s2" \in DOMAIN scopes /\ "s2" \in DOMAIN atoms /\ "s2" \notin DOMAIN Variables
    /\ atoms["s2"].Attributes # EmptyMap
    /\ atoms["s1"].Attributes = EmptyMap

\* The identifier is in none of the three frameworks.
NeverCreated(id) ==
    id \notin DOMAIN Variables /\ id \notin DOMAIN scopes /\ id \notin DOMAIN atoms

\* C24: after a successful UnifiedFramework.PropagateState(id, delta) the
\* Hypermind scope's State and the atom's Attributes both map every key of
\* delta to delta's value; and the call fails when id was never created.
C24_BothViewsAgree ==
    Called("UnifiedFramework.PropagateState") =>
        /\ last.err = NoErr =>
              /\ last.id \in DOMAIN scopes /\ last.id \in DOMAIN atoms
              /\ \A k \in DOMAIN last.delta.kv :
                    /\ k \in DOMAIN scopes[last.id].State.kv
                    /\ scopes[last.id].State.kv[k] = last.delta.kv[k]
                    /\ k \in DOMAIN atoms[last.id].Attributes.kv
                    /\ atoms[last.id].Attributes.kv[k] = last.delta.kv[k]
        /\ NeverCreated(last.id) => last.err # NoErr

\* A delta of one key has been propagated over an earlier delta of two keys:
\* both views hold the new value under the one key and the old value under
\* the other.
C24_Witness ==
    /\ Succeeded("UnifiedFramework.PropagateState")
    /\ DOMAIN last.delta.kv = {"k1"}
    /\ scopes[last.id].State.kv = [k \in {"k1", "k2"} |-> IF k = "k1" THEN "v1" ELSE "v2"]
    /\ atoms[last.id].Attributes = scopes[last.id].State

\* C25: QueryScope never returns an error and always returns an info record
\* carrying the queried identifier; its TensorVariable, DistributedScope and
\* Atom are each non-nil exactly when the identifier is present in the
\* tensor logic framework, in Hypermind and in the space respectively, and
\* all three are nil for an identifier that was never created.
C25_QueryScopeParts ==
    Called("QueryScope") =>
        /\ last.err = NoErr
        /\ ~last.info.nil
        /\ last.info.ID = last.id
        /\ ~last.info.TensorVariable.nil <=> last.id \in DOMAIN Variables
        /\ ~last.info.DistributedScope.nil <=> last.id \in DOMAIN scopes
        /\ ~last.info.Atom.nil <=> last.id \in DOMAIN atoms
        /\ NeverCreated(last.id) =>
              /\ last.info.TensorVariable.nil
              /\ last.info.DistributedScope.nil
              /\ last.info.Atom.nil

\* QueryScope has returned a record with the tensor variable but neither the
\* distributed scope nor the atom, for an identifier registered in the tensor
\* logic framework alone.
C25_Witness ==
    /\ Called("QueryScope")
    /\ ~last.info.TensorVariable.nil
    /\ last.info.DistributedScope.nil
    /\ last.info.Atom.nil
    /\ "s1" \in DOMAIN atoms

----------------------------------------------------------------------------
(* Interleaved calls on the tensor logic framework.  The Framework has no
   mutex: a thread that has entered a method is at the statement that reads
   or writes f.Variables or f.Equations until it has made that access, and
   nothing keeps a second thread out.  The Go runtime may stop the program
   with "concurrent map writes" or "concurrent map read and map write" when
   it meets two such accesses to one map. *)

tensorLogicFrame ==
    <<scopes, activePeers, entries, clock, last, hist, mu, pmu, dmu, peerSnap, atoms, links,
      tensorStore, boundaries, smu>>

VariableWrites == {"rv_write"}
VariableReads == {"ev_read"}
EquationWrites == {"de_read", "de_write"}

\* Another thread is at an access to f.Variables.
OtherAtVariables(t) ==
    \E u \in Threads \ {t} : pc[u] \in VariableWrites \cup VariableReads
OtherWritesVariables(t) == \E u \in Threads \ {t} : pc[u] \in VariableWrites

ConcVariableInputs ==
    {MkVariable("s1", <<"i">>, <<1, 2>>, "neural"), MkVariable("s1", <<>>, <<3>>, "symbolic"),
     MkVariable("s3", <<>>, <<>>, "symbolic")}
ConcEquationInputs == {eq \in EquationInputs : ~eq.nil}
ConcVariableIDs == {"s1", "s3"}

CallRegisterVariable(t, v) ==
    /\ pc[t] = "idle" /\ RegisterVariableErr(v) = NoErr
    /\ loc' = [loc EXCEPT ![t] = [IdleLoc EXCEPT !.op = "RegisterVariable", !.variable = v,
                                                 !.id = v.Name]]
    /\ Goto(t, "rv_write")
    /\ UNCHANGED <<tensorLogicFrame, Variables, Equations>>

\* RegisterVariable: f.Variables[v.Name] = v
RvWrite(t) ==
    /\ pc[t] = "rv_write"
    /\ Variables' = Put(Variables, loc[t].id, loc[t].variable)
    /\ Goto(t, "idle")
    /\ UNCHANGED <<tensorLogicFrame, Equations, loc>>

\* RegisterVariable: the runtime finds another access to the map under way
\* and stops the program.
RvFatal(t) ==
    /\ pc[t] = "rv_write" /\ OtherAtVariables(t)
    /\ pc' = [u \in Threads |-> "fatal"]
    /\ UNCHANGED <<tensorLogicFrame, Variables, Equations, loc>>

CallDefineEquation(t, eq) ==
    /\ pc[t] = "idle" /\ ~eq.nil
    /\ loc' = [loc EXCEPT ![t] = [IdleLoc EXCEPT !.op = "DefineEquation", !.eq = eq]]
    /\ Goto(t, "de_read")
    /\ UNCHANGED <<tensorLogicFrame, Variables, Equations>>

\* DefineEquation, in append: the read of the slice f.Equations.
DeRead(t) ==
    /\ pc[t] = "de_read" /\ Len(Equations) < MaxEquations
    /\ loc' = [loc EXCEPT ![t].snap = Equations]
    /\ Goto(t, "de_write")
    /\ UNCHANGED <<tensorLogicFrame, Variables, Equations>>

\* DefineEquation: the assignment of the appended slice to f.Equations.
DeWrite(t) ==
    /\ pc[t] = "de_write"
    /\ Equations' = Append(loc[t].snap, loc[t].eq)
    /\ Goto(t, "idle")
    /\ UNCHANGED <<tensorLogicFrame, Variables, loc>>

CallEvaluate(t, varName) ==
    /\ pc[t] = "idle"
    /\ loc' = [loc EXCEPT ![t] = [IdleLoc EXCEPT !.op = "Evaluate", !.id = varName]]
    /\ Goto(t, "ev_read")
    /\ UNCHANGED <<tensorLogicFrame, Variables, Equations>>

\* Evaluate: v, ok := f.Variables[varName] and the copy.
EvRead(t) ==
    /\ pc[t] = "ev_read"
    /\ loc' = [loc EXCEPT ![t].retVar = evaluated(Variables, loc[t].id).v]
    /\ Goto(t, "idle")
    /\ UNCHANGED <<tensorLogicFrame, Variables, Equations>>

\* Evaluate: the runtime finds a write to the map under way and stops the
\* program.
EvFatal(t) ==
    /\ pc[t] = "ev_read" /\ OtherWritesVariables(t)
    /\ pc' = [u \in Threads |-> "fatal"]
    /\ UNCHANGED <<tensorLogicFrame, Variables, Equations, loc>>

NextTensorLogicConc ==
    \/ \E t \in Threads : \E v \in ConcVariableInputs : CallRegisterVariable(t, v)
    \/ \E t \in Threads : RvWrite(t)
    \/ \E t \in Threads : RvFatal(t)
    \/ \E t \in Threads : \E eq \in ConcEquationInputs : CallDefineEquation(t, eq)
    \/ \E t \in Threads : DeRead(t)
    \/ \E t \in Threads : DeWrite(t)
    \/ \E t \in Threads : \E varName \in ConcVariableIDs : CallEvaluate(t, varName)
    \/ \E t \in Threads : EvRead(t)
    \/ \E t \in Threads : EvFatal(t)

\* Calls of the tensor logic framework by concurrent threads.
SpecTensorLogicConc == Init /\ [][NextTensorLogicConc]_vars

\* C29: for concurrent RegisterVariable, DefineEquation and Evaluate calls on
\* one Framework, no two threads are at an access to the Variables map, or to
\* the Equations list, at the same time with at least one of them writing.
C29_FrameworkThreadSafe ==
    \A t \in Threads : \A u \in Threads \ {t} :
        /\ pc[t] \in VariableWrites => pc[u] \notin VariableWrites \cup VariableReads
        /\ pc[t] \in EquationWrites => pc[u] \notin EquationWrites

----------------------------------------------------------------------------
(* Interleaved calls on the facade and the space.  The space's methods hold
   s.mu for their body; UnifiedFramework.PropagateState writes the atom's
   Attributes through the pointer GetAtom returned, after GetAtom has
   released s.mu. *)

unifiedFrame ==
    <<activePeers, entries, last, hist, mu, pmu, dmu, peerSnap, Variables, Equations, links,
      boundaries>>

ConcAtomInputs == {MkAtom("s1", "entity", NilMap)}
ConcTensorInputs == {MkTensor("t1", <<1>>)}
ConcUnifiedIDs == {"s1"}

\* CreateBoundaryScope holds no lock of its own: it makes its four component
\* calls one after the other, each taking and releasing its component's lock
\* (RegisterVariable takes none), so other threads' calls run between them.
CallCreateBoundaryScope(t, scopeID, scopeType) ==
    /\ pc[t] = "idle"
    /\ loc' = [loc EXCEPT ![t] = [IdleLoc EXCEPT !.op = "CreateBoundaryScope",
                                                 !.id = scopeID,
                                                 !.variable = scopeVar(scopeID),
                                                 !.scope = distScope(scopeID, scopeType),
                                                 !.atom = scopeAtom(scopeID),
                                                 !.tensor = scopeTensor(scopeID)]]
    /\ Goto(t, "cbs_register_variable")
    /\ UNCHANGED <<unifiedFrame, scopes, clock, atoms, tensorStore, smu>>

\* Another thread is at the facade's write to f.Variables.
OtherRegistersVariable(t) == \E u \in Threads \ {t} : pc[u] = "cbs_register_variable"

\* CreateBoundaryScope: u.TensorLogic.RegisterVariable, whose map write
\* f.Variables[v.Name] = v holds no lock; its error ends the call.  When
\* another thread is at the same write the runtime may detect the concurrent
\* map writes and abort the process.
CbsRegisterVariable(t) ==
    /\ pc[t] = "cbs_register_variable"
    /\ \/ IF RegisterVariableErr(loc[t].variable) # NoErr
          THEN Goto(t, "idle") /\ UNCHANGED Variables
          ELSE /\ Variables' = Put(Variables, loc[t].variable.Name, loc[t].variable)
               /\ Goto(t, "cbs_register_scope")
       \/ /\ RegisterVariableErr(loc[t].variable) = NoErr /\ OtherRegistersVariable(t)
          /\ pc' = [u \in Threads |-> "fatal"]
          /\ UNCHANGED Variables
    /\ UNCHANGED <<activePeers, entries, last, hist, mu, pmu, dmu, peerSnap, Equations, links,
                   boundaries, scopes, clock, atoms, tensorStore, smu, loc>>

\* CreateBoundaryScope: u.Hypermind.RegisterScope, a whole call under m.mu;
\* its error ends the call.
CbsRegisterScope(t) ==
    /\ pc[t] = "cbs_register_scope" /\ canLock(mu)
    /\ IF RegisterScopeErr(loc[t].scope) # NoErr
       THEN Goto(t, "idle") /\ UNCHANGED <<scopes, clock>>
       ELSE /\ \E t1 \in clock..MaxClock : \E t2 \in t1..MaxClock :
                  /\ scopes' = Put(scopes, loc[t].scope.ID, registered(loc[t].scope, t1, t2))
                  /\ clock' = t2
            /\ Goto(t, "cbs_add_atom_lock")
    /\ UNCHANGED <<unifiedFrame, atoms, tensorStore, smu, loc>>

\* CreateBoundaryScope, in AddAtom: the checks, then s.mu.Lock(); an error of
\* the checks ends the call.
CbsAddAtomLock(t) ==
    /\ pc[t] = "cbs_add_atom_lock"
    /\ IF AddAtomErr(loc[t].atom) # NoErr
       THEN Goto(t, "idle") /\ UNCHANGED smu
       ELSE canLock(smu) /\ smu' = Lock(smu, t) /\ Goto(t, "cbs_add_atom")
    /\ UNCHANGED <<unifiedFrame, scopes, clock, atoms, tensorStore, loc>>

\* CreateBoundaryScope, in AddAtom: CreatedAt, the Attributes default, the
\* map write and the deferred Unlock.  A thread that holds the atom this
\* replaces holds an atom the space no longer refers to.
CbsAddAtom(t) ==
    /\ pc[t] = "cbs_add_atom"
    /\ \E now \in clock..MaxClock :
          /\ atoms' = Put(atoms, loc[t].atom.ID, added(loc[t].atom, now))
          /\ clock' = now
    /\ loc' = [u \in Threads |->
                 IF pc[u] = "ups_write" /\ loc[u].id = loc[t].atom.ID
                 THEN [loc[u] EXCEPT !.stale = TRUE] ELSE loc[u]]
    /\ smu' = Unlock(smu, t)
    /\ Goto(t, "cbs_attach_tensor_lock")
    /\ UNCHANGED <<unifiedFrame, scopes, tensorStore>>

\* CreateBoundaryScope, in AttachTensor: s.mu.Lock()
CbsAttachTensorLock(t) ==
    /\ pc[t] = "cbs_attach_tensor_lock" /\ canLock(smu)
    /\ smu' = Lock(smu, t)
    /\ Goto(t, "cbs_attach_tensor")
    /\ UNCHANGED <<unifiedFrame, scopes, clock, atoms, tensorStore, loc>>

\* CreateBoundaryScope, in AttachTensor: the lookup of the atom the space
\* now holds under the identifier, the TensorID and store writes, and the
\* deferred Unlock; the call returns.
CbsAttachTensor(t) ==
    /\ pc[t] = "cbs_attach_tensor"
    /\ IF AttachTensorErr(atoms, loc[t].id, loc[t].tensor) # NoErr
       THEN UNCHANGED <<atoms, tensorStore>>
       ELSE /\ atoms' = [atoms EXCEPT ![loc[t].id].TensorID = loc[t].tensor.ID]
            /\ tensorStore' = Put(tensorStore, loc[t].tensor.ID, loc[t].tensor)
    /\ smu' = Unlock(smu, t)
    /\ Goto(t, "idle")
    /\ UNCHANGED <<unifiedFrame, scopes, clock, loc>>

CallUnifiedPropagateState(t, scopeID, state) ==
    /\ pc[t] = "idle"
    /\ loc' = [loc EXCEPT ![t] = [IdleLoc EXCEPT !.op = "UnifiedFramework.PropagateState",
                                                 !.id = scopeID, !.delta = state]]
    /\ Goto(t, "ups_hypermind")
    /\ UNCHANGED <<unifiedFrame, scopes, clock, atoms, tensorStore, smu>>

\* UnifiedFramework.PropagateState: u.Hypermind.PropagateState, a whole call
\* under m.mu; its error ends the facade call.
UpsHypermind(t) ==
    /\ pc[t] = "ups_hypermind" /\ canLock(mu)
    /\ IF loc[t].id \notin DOMAIN scopes
       THEN Goto(t, "idle") /\ UNCHANGED <<scopes, clock>>
       ELSE /\ \E now \in clock..MaxClock :
                  /\ scopes' = Put(scopes, loc[t].id,
                                   propagated(scopes[loc[t].id], loc[t].delta, now))
                  /\ clock' = now
            /\ Goto(t, "ups_getatom_rlock")
    /\ UNCHANGED <<unifiedFrame, atoms, tensorStore, smu, loc>>

\* UnifiedFramework.PropagateState, in GetAtom: s.mu.RLock()
UpsGetAtomRLock(t) ==
    /\ pc[t] = "ups_getatom_rlock" /\ canRLock(smu)
    /\ smu' = RLock(smu, t)
    /\ Goto(t, "ups_getatom_read")
    /\ UNCHANGED <<unifiedFrame, scopes, clock, atoms, tensorStore, loc>>

\* UnifiedFramework.PropagateState, in GetAtom: the map read, the return of
\* the stored pointer and the deferred RUnlock; its error ends the call.
UpsGetAtomRead(t) ==
    /\ pc[t] = "ups_getatom_read"
    /\ smu' = RUnlock(smu, t)
    /\ Goto(t, IF loc[t].id \in DOMAIN atoms THEN "ups_write" ELSE "idle")
    /\ UNCHANGED <<unifiedFrame, scopes, clock, atoms, tensorStore, loc>>

\* Another thread is writing the Attributes map of the atom t holds.
OtherWritesAttributes(t) ==
    \E u \in Threads \ {t} :
        pc[u] = "ups_write" /\ loc[u].id = loc[t].id /\ ~loc[u].stale /\ ~loc[t].stale

\* UnifiedFramework.PropagateState: the loop atom.Attributes[k] = v, with no
\* lock held.  The writes reach the space unless AddAtom has replaced the
\* atom under the identifier since GetAtom returned.
UpsWrite(t) ==
    /\ pc[t] = "ups_write"
    /\ atoms' = IF loc[t].stale THEN atoms
                ELSE Put(atoms, loc[t].id, attributesMerged(atoms[loc[t].id], loc[t].delta))
    /\ Goto(t, "idle")
    /\ UNCHANGED <<unifiedFrame, scopes, clock, tensorStore, smu, loc>>

\* UnifiedFramework.PropagateState: the runtime finds another write to the
\* same map under way and stops the program.
UpsFatal(t) ==
    /\ pc[t] = "ups_write" /\ OtherWritesAttributes(t)
    /\ pc' = [u \in Threads |-> "fatal"]
    /\ UNCHANGED <<unifiedFrame, scopes, clock, atoms, tensorStore, smu, loc>>

CallAddAtom(t, atom) ==
    /\ pc[t] = "idle" /\ AddAtomErr(atom) = NoErr
    /\ loc' = [loc EXCEPT ![t] = [IdleLoc EXCEPT !.op = "AddAtom", !.atom = atom,
                                                 !.id = atom.ID]]
    /\ Goto(t, "aa_lock")
    /\ UNCHANGED <<unifiedFrame, scopes, clock, atoms, tensorStore, smu>>

\* AddAtom: s.mu.Lock()
AaLock(t) ==
    /\ pc[t] = "aa_lock" /\ canLock(smu)
    /\ smu' = Lock(smu, t)
    /\ Goto(t, "aa_write")
    /\ UNCHANGED <<unifiedFrame, scopes, clock, atoms, tensorStore, loc>>

\* AddAtom: CreatedAt, the Attributes default, the map write and the deferred
\* Unlock.  A thread that holds the atom this replaces holds an atom the
\* space no longer refers to.
AaWrite(t) ==
    /\ pc[t] = "aa_write"
    /\ \E now \in clock..MaxClock :
          /\ atoms' = Put(atoms, loc[t].id, added(loc[t].atom, now))
          /\ clock' = now
    /\ loc' = [u \in Threads |->
                 IF pc[u] = "ups_write" /\ loc[u].id = loc[t].id
                 THEN [loc[u] EXCEPT !.stale = TRUE] ELSE loc[u]]
    /\ smu' = Unlock(smu, t)
    /\ Goto(t, "idle")
    /\ UNCHANGED <<unifiedFrame, scopes, tensorStore>>

CallAttachTensor(t, atomID, tensor) ==
    /\ pc[t] = "idle" /\ ~tensor.nil
    /\ loc' = [loc EXCEPT ![t] = [IdleLoc EXCEPT !.op = "AttachTensor", !.id = atomID,
                                                 !.tensor = tensor]]
    /\ Goto(t, "at_lock")
    /\ UNCHANGED <<unifiedFrame, scopes, clock, atoms, tensorStore, smu>>

\* AttachTensor: s.mu.Lock()
AtLock(t) ==
    /\ pc[t] = "at_lock" /\ canLock(smu)
    /\ smu' = Lock(smu, t)
    /\ Goto(t, "at_write")
    /\ UNCHANGED <<unifiedFrame, scopes, clock, atoms, tensorStore, loc>>

\* AttachTensor: the atom lookup, the TensorID and store writes, and the
\* deferred Unlock.
AtWrite(t) ==
    /\ pc[t] = "at_write"
    /\ IF loc[t].id \in DOMAIN atoms
       THEN /\ atoms' = [atoms EXCEPT ![loc[t].id].TensorID = loc[t].tensor.ID]
            /\ tensorStore' = Put(tensorStore, loc[t].tensor.ID, loc[t].tensor)
       ELSE UNCHANGED <<atoms, tensorStore>>
    /\ smu' = Unlock(smu, t)
    /\ Goto(t, "idle")
    /\ UNCHANGED <<unifiedFrame, scopes, clock, loc>>

NextUnifiedConc ==
    \/ \E t \in Threads : \E scopeID \in ConcUnifiedIDs :
          CallCreateBoundaryScope(t, scopeID, "org")
    \/ \E t \in Threads : CbsRegisterVariable(t)
    \/ \E t \in Threads : CbsRegisterScope(t)
    \/ \E t \in Threads : CbsAddAtomLock(t)
    \/ \E t \in Threads : CbsAddAtom(t)
    \/ \E t \in Threads : CbsAttachTensorLock(t)
    \/ \E t \in Threads : CbsAttachTensor(t)
    \/ \E t \in Threads : \E scopeID \in ConcUnifiedIDs : \E state \in UnifiedDeltas :
          CallUnifiedPropagateState(t, scopeID, state)
    \/ \E t \in Threads : UpsHypermind(t)
    \/ \E t \in Threads : UpsGetAtomRLock(t)
    \/ \E t \in Threads : UpsGetAtomRead(t)
    \/ \E t \in Threads : UpsWrite(t)
    \/ \E t \in Threads : UpsFatal(t)
    \/ \E t \in Threads : \E atom \in ConcAtomInputs : CallAddAtom(t, atom)
    \/ \E t \in Threads : AaLock(t)
    \/ \E t \in Threads : AaWrite(t)
    \/ \E t \in Threads : \E scopeID \in ConcUnifiedIDs : \E tensor \in ConcTensorInputs :
          CallAttachTensor(t, scopeID, tensor)
    \/ \E t \in Threads : AtLock(t)
    \/ \E t \in Threads : AtWrite(t)

\* Calls of the facade's CreateBoundaryScope and PropagateState and of the
\* space by concurrent threads.
SpecUnifiedConc == Init /\ [][NextUnifiedConc]_vars

\* The statements of the space's methods between s.mu.Lock() or RLock() and
\* the unlock.
SpaceCS == {"ups_getatom_read", "aa_write", "at_write", "cbs_add_atom", "cbs_attach_tensor"}

\* A thread writes an atom's Attributes while another thread is inside a
\* locked method of the space on the same identifier, or is writing the same
\* Attributes map.
AttributesWriteOverlaps ==
    \E t \in Threads : \E u \in Threads \ {t} :
        /\ pc[t] = "ups_write" /\ ~loc[t].stale
        /\ loc[u].id = loc[t].id
        /\ \/ pc[u] \in SpaceCS
           \/ pc[u] = "ups_write" /\ ~loc[u].stale

\* C30: UnifiedFramework.PropagateState writes an atom's Attributes only
\* while the space's lock is held, so its write overlaps no other thread's
\* access to the same atom made under the space's lock, and no second
\* PropagateState's write to the same atom.
C30_AttributesWrittenUnderLock ==
    /\ \A t \in Threads : pc[t] = "ups_write" => Holds(smu, t)
    /\ ~AttributesWriteOverlaps

----------------------------------------------------------------------------
(* PropagateState with a fan-out hook that can fail.  propagateToPeers is a
   stub that returns nil; a transport plugged into it returns nil or an
   error, and PropagateState returns whatever the hook returns, after the
   merge and the UpdatedAt write. *)

\* The error of a fan-out that failed.
HookFailure == Err("Internal", "fan-out failed")

\* What the hook can return for a call: the stub's result, or a failure.
HookResults(scopeID, state) == {propagateToPeers(scopeID, state), HookFailure}

\* Mutant of committed: a failing hook restores the record.
rolledBack(scope, state, t, hook) ==
    IF hook # NoErr THEN scope ELSE propagated(scope, state, t)

\* The record under scopeID when PropagateState returns: the merge and the
\* UpdatedAt write precede the hook and nothing follows it.
committed(scope, state, t, hook) == propagated(scope, state, t)

PropagateStateWithHook(scopeID, state, hook) ==
    /\ UNCHANGED <<conc, ext>>
    /\ IF scopeID \notin DOMAIN scopes
       THEN /\ last' = [NoCall EXCEPT !.op = "PropagateState", !.id = scopeID,
                                      !.delta = state, !.err = scopeNotFound(scopeID)]
            /\ UNCHANGED <<scopes, activePeers, entries, clock, hist>>
       ELSE \E t \in clock..MaxClock :
               /\ scopes' = Put(scopes, scopeID, committed(scopes[scopeID], state, t, hook))
               /\ clock' = t
               /\ last' = [NoCall EXCEPT !.op = "PropagateState", !.id = scopeID,
                                         !.delta = state, !.t1 = t, !.err = hook]
               /\ UNCHANGED <<activePeers, entries, hist>>

\* The state arguments of these calls: empty, one key, both keys.
HookDeltas == {EmptyMap, MkMap([k \in {"k1"} |-> "v2"]), MkMap([k \in StateKeys |-> "v2"])}

NextHook ==
    \/ \E scope \in ScopeInputs : RegisterScope(scope)
    \/ \E scopeID \in LookupIDs : GetScope(scopeID)
    \/ \E scopeID \in LookupIDs : \E state \in HookDeltas :
          \E hook \in HookResults(scopeID, state) :
             PropagateStateWithHook(scopeID, state, hook)

\* Calls on the scope registry, the hook of PropagateState returning nil or
\* failing.
SpecHook == Init /\ [][NextHook]_vars

\* C31: PropagateState on a registered scope leaves the merged state and the
\* UpdatedAt of this call's clock reading under the identifier whether the
\* hook returned nil or failed, and changes no other record; on an
\* unregistered identifier it changes nothing; and when the hook does not fail
\* (the stub), the call returns an error exactly when the identifier is not
\* registered.
C31_MergeCommittedBeforeHook ==
    [][last'.op = "PropagateState" =>
          LET id == last'.id IN
          /\ id \in DOMAIN scopes =>
                /\ DOMAIN scopes' = DOMAIN scopes
                /\ scopes'[id].State = MergeState(scopes[id].State, last'.delta)
                /\ scopes'[id].UpdatedAt = last'.t1
                /\ last'.t1 >= scopes[id].UpdatedAt
                /\ \A other \in (DOMAIN scopes) \ {id} : scopes'[other] = scopes[other]
          /\ id \notin DOMAIN scopes => scopes' = scopes
          /\ last'.err # HookFailure =>
                (last'.err # NoErr <=> id \notin DOMAIN scopes)]_vars

\* C31 witness: the hook failed in a PropagateState whose delta put a new key
\* in the scope's state at a later time than the registration; the key and
\* the later UpdatedAt are in the registry.
C31_Witness ==
    /\ last.op = "PropagateState" /\ last.err = HookFailure
    /\ DOMAIN last.delta.kv = {"k1", "k2"}
    /\ scopes[last.id].State.kv = last.delta.kv
    /\ scopes[last.id].UpdatedAt = MaxClock
    /\ scopes[last.id].CreatedAt < MaxClock

----------------------------------------------------------------------------
(* Further claims about interleaved calls, checked under SpecConc *)

\* C32: in every step of every interleaving of calls, the UpdatedAt stored
\* under a scope identifier and the LastSeen stored under a peer identifier
\* do not decrease, and a step that writes one of them (inside RegisterScope,
\* PropagateState or ConnectPeer, with the component's write lock held) sets
\* it to the clock reading of that step.  A step in which the runtime aborts
\* the process writes nothing.
C32_TimestampsNeverDecrease ==
    [][/\ \A id \in DOMAIN scopes :
             /\ id \in DOMAIN scopes'
             /\ scopes'[id].UpdatedAt >= scopes[id].UpdatedAt
       /\ \A p \in DOMAIN activePeers :
             /\ p \in DOMAIN activePeers'
             /\ activePeers'[p].LastSeen >= activePeers[p].LastSeen
       /\ \A t \in Threads :
             /\ (pc[t] \in {"rs_write", "ps_merge"} /\ pc'[t] \notin {pc[t], "fatal"}) =>
                   Holds(mu, t) /\ scopes'[loc[t].id].UpdatedAt = clock'
             /\ (pc[t] = "cp_put" /\ pc'[t] \notin {pc[t], "fatal"}) =>
                   Holds(pmu, t) /\ activePeers'[loc[t].id].LastSeen = clock']_vars

\* C32 witness: a thread is about to register s1 again, holding the write
\* lock, after a PropagateState refreshed s1 at a later time than it was
\* registered, while the other thread is connecting p1 a second time at a
\* later time than the first.
C32_Witness ==
    \E t \in Threads : \E u \in Threads \ {t} :
        /\ pc[t] = "rs_write"
        /\ "s1" \in DOMAIN scopes
        /\ scopes["s1"].CreatedAt < scopes["s1"].UpdatedAt
        /\ pc[u] = "cp_add_lock"
        /\ peerSnap.ap # <<>>
        /\ activePeers["p1"].LastSeen > peerSnap.ap["p1"].LastSeen

----------------------------------------------------------------------------
(* Further claims about the peer network, checked under SpecPeers *)

\* C33: every peer identifier listed in an entry of the discovery index is a
\* key of the peer directory; so the filter of DiscoverPeers drops nothing:
\* the list it returns has one record per identifier of the entry, in order.
C33_IndexedAreInDirectory ==
    /\ \A k \in DOMAIN entries : Range(entries[k]) \subseteq DOMAIN activePeers
    /\ \A k \in DHTKeys :
          LET peers == discovered(activePeers, entries, k) IN
          /\ Len(peers) = Len(lookup(entries, k))
          /\ \A i \in 1..Len(peers) : peers[i].ID = lookup(entries, k)[i]
    /\ Called("DiscoverPeers") => Len(last.retPeers) = Len(lookup(entries, last.id))

\* C33 witness: DiscoverPeers returned two records for an entry of two
\* identifiers while both peers were in the directory and p1 had connected
\* under three scope lists.
C33_Witness ==
    /\ Called("DiscoverPeers")
    /\ Len(lookup(entries, last.id)) = 2
    /\ Len(last.retPeers) = 2
    /\ DOMAIN activePeers = PeerIDs
    /\ declCount["s1"]["p1"] = 2 /\ declCount["s2"]["p1"] = 2

----------------------------------------------------------------------------
(* Fair scheduling of the interleaved calls.  The Go scheduler runs every
   runnable goroutine, and a goroutine waiting in Lock or RLock is not
   overtaken for ever: a blocked Lock keeps new readers out, and Unlock lets
   the waiting readers in before the next writer.  So a thread whose next
   statement can run again and again does run it. *)

\* The next statement of thread t's call.
Step(t) ==
    \/ RsLock(t) \/ RsWrite(t)
    \/ GsRLock(t) \/ GsRead(t)
    \/ PsLock(t) \/ PsCheck(t) \/ PsMerge(t) \/ PsHook(t)
    \/ CpLock(t) \/ CpPut(t) \/ CpAddLock(t) \/ CpAdd(t) \/ CpUnlock(t)
    \/ DpRLock(t) \/ DpLookupRLock(t) \/ DpLookup(t) \/ DpFilter(t)
    \/ GapRLock(t) \/ GapRead(t)

\* No lock step depends on a timestamp, so the fair specification starts
\* when the clock reads MaxClock: time.Now() gives that reading throughout.
InitLate ==
    /\ scopes = <<>>
    /\ activePeers = <<>>
    /\ entries = <<>>
    /\ clock = MaxClock
    /\ last = NoCall
    /\ declCount = [s \in DHTKeys |-> [p \in PeerIDs |-> 0]]
    /\ registeredIDs = {}
    /\ connectedIDs = {}
    /\ pc = [t \in Threads |-> "idle"]
    /\ loc = [t \in Threads |-> IdleLoc]
    /\ mu = FreeLock
    /\ pmu = FreeLock
    /\ dmu = FreeLock
    /\ peerSnap = [ap |-> <<>>, ent |-> <<>>]
    /\ Variables = <<>>
    /\ Equations = <<>>
    /\ atoms = <<>>
    /\ links = <<>>
    /\ tensorStore = <<>>
    /\ boundaries = <<>>
    /\ smu = FreeLock

\* The six methods alone, called from concurrent threads under fair
\* scheduling: every step is a statement of one of the six methods, and no
\* caller reads or writes through a reference a call returned.
SpecConcFair == InitLate /\ [][NextCalls]_vars /\ \A t \in Threads : SF_vars(Step(t))

\* The statements at which a thread asks for a lock, by lock and mode.
RegistryLockPCs == {"rs_lock", "ps_lock"}
RegistryRLockPCs == {"gs_rlock"}
PeerLockPCs == {"cp_lock"}
PeerRLockPCs == {"dp_rlock", "gap_rlock"}
IndexLockPCs == {"cp_add_lock"}
IndexRLockPCs == {"dp_lookup_rlock"}
OuterRequestPCs == RegistryLockPCs \cup RegistryRLockPCs \cup PeerLockPCs \cup PeerRLockPCs
InnerRequestPCs == IndexLockPCs \cup IndexRLockPCs

HoldsNone(t) == ~Holds(mu, t) /\ ~Holds(pmu, t) /\ ~Holds(dmu, t)

\* Thread t cannot take the lock m it asks for.  A reader also waits while
\* another thread is in a Lock call on m that has not returned.
WaitsForLock(t, m, lockPCs, rlockPCs) ==
    \/ pc[t] \in lockPCs /\ ~canLock(m)
    \/ pc[t] \in rlockPCs /\ (~canRLock(m) \/ \E u \in Threads \ {t} : pc[u] \in lockPCs)

Blocked(t) ==
    \/ WaitsForLock(t, mu, RegistryLockPCs, RegistryRLockPCs)
    \/ WaitsForLock(t, pmu, PeerLockPCs, PeerRLockPCs)
    \/ WaitsForLock(t, dmu, IndexLockPCs, IndexRLockPCs)

\* Some call is under way and every thread that is in a call waits for a lock.
Deadlocked ==
    /\ \E t \in Threads : pc[t] # "idle"
    /\ \A t \in Threads : pc[t] # "idle" => Blocked(t)

\* The order in which a thread takes locks: the registry lock and the peer
\* network's lock are asked for with no lock held, the index lock with the
\* peer network's lock held and no other; between calls no lock is held.
LockOrder ==
    \A t \in Threads :
        /\ pc[t] \in OuterRequestPCs => HoldsNone(t)
        /\ pc[t] \in InnerRequestPCs => Holds(pmu, t) /\ ~Holds(mu, t) /\ ~Holds(dmu, t)
        /\ Holds(dmu, t) => Holds(pmu, t)
        /\ Holds(mu, t) =>
              /\ ~Holds(pmu, t) /\ ~Holds(dmu, t)
              /\ pc[t] \notin OuterRequestPCs \cup InnerRequestPCs
        /\ pc[t] = "idle" => HoldsNone(t)

\* C34: in every interleaving of the six methods the locks are taken in the
\* order peer network then index, the registry lock is never held while a
\* lock is asked for, no state has every running call waiting for a lock,
\* and under fair scheduling every call that has begun returns, holding no
\* lock.
C34_NoDeadlock ==
    /\ [](LockOrder /\ ~Deadlocked)
    /\ \A t \in Threads : (pc[t] # "idle") ~> (pc[t] = "idle" /\ HoldsNone(t))

\* C34 witness: a ConnectPeer holds the peer network's lock and the index
\* lock while the other thread's DiscoverPeers waits for the peer network's
\* lock.
C34_Witness ==
    \E t \in Threads : \E u \in Threads \ {t} :
        /\ pc[t] = "cp_add" /\ Holds(pmu, t) /\ Holds(dmu, t)
        /\ pc[u] = "dp_rlock" /\ Blocked(u)

\* C35: the list DiscoverPeers returns for a key has the length and the order
\* of the key's index entry, duplicates included: its i-th element is the
\* record the directory now holds under the entry's i-th identifier, and a
\* peer is in it once for every time a successful ConnectPeer of it listed
\* the key.
C35_DiscoverKeepsDuplicates ==
    /\ \A k \in DHTKeys :
          LET entry == lookup(entries, k)
              peers == discovered(activePeers, entries, k)
          IN /\ Len(peers) = Len(entry)
             /\ \A i \in 1..Len(entry) :
                   entry[i] \in DOMAIN activePeers /\ peers[i] = activePeers[entry[i]]
             /\ \A p \in PeerIDs :
                   Cardinality({i \in 1..Len(peers) : peers[i].ID = p}) = declCount[k][p]
    /\ Called("DiscoverPeers") =>
          /\ last.retPeers = discovered(activePeers, entries, last.id)
          /\ Len(last.retPeers) = Len(lookup(entries, last.id))

\* C35 witness: p1 connected declaring s2 at address a1 and again at address
\* a2; DiscoverPeers(s2) returned its record twice, both times the one of the
\* second connect.
C35_Witness ==
    /\ Called("DiscoverPeers") /\ last.id = "s2"
    /\ declCount["s2"]["p1"] = 2
    /\ Len(last.retPeers) = 2
    /\ \A i \in 1..2 : last.retPeers[i].ID = "p1" /\ last.retPeers[i].Address = "a2"
    /\ last.retPeers[1].ScopeIDs = <<"s2">>

\* C36: a peer that once connected declaring s is returned by
\* DiscoverPeers(s) in every later state, also after it connected again
\* without s; the record returned is the directory's current one, whose
\* ScopeIDs then does not contain s.
C36_MembershipNeverRetracted ==
    /\ \A s \in DHTKeys : \A p \in Declared(s) :
          /\ p \in DOMAIN activePeers
          /\ \E i \in 1..Len(discovered(activePeers, entries, s)) :
                discovered(activePeers, entries, s)[i] = activePeers[p]
    /\ Called("DiscoverPeers") =>
          \A p \in Declared(last.id) :
             \E i \in 1..Len(last.retPeers) :
                /\ last.retPeers[i].ID = p
                /\ last.retPeers[i].ScopeIDs = activePeers[p].ScopeIDs

\* C36 witness: p1 connected declaring s1, then connected again declaring s2
\* alone; DiscoverPeers(s1) returned p1 with a record that does not list s1.
C36_Witness ==
    /\ Called("DiscoverPeers") /\ last.id = "s1"
    /\ declCount["s1"]["p1"] > 0
    /\ "s1" \notin Range(activePeers["p1"].ScopeIDs)
    /\ \E i \in 1..Len(last.retPeers) :
          last.retPeers[i].ID = "p1" /\ "s1" \notin Range(last.retPeers[i].ScopeIDs)

----------------------------------------------------------------------------
(* Frame of the registry's calls *)

\* C37: a successful PropagateState(id, delta) leaves the identifier, parent,
\* kind, Peers list and CreatedAt of the scope under id, the set of
\* registered identifiers and every other scope's record as they were; with
\* an empty or nil delta the State is unchanged too, so that only UpdatedAt
\* can differ.
C37_PropagateFrame ==
    [][(last'.op = "PropagateState" /\ last'.err = NoErr) =>
          LET id == last'.id
              before == scopes[id]
              after == scopes'[id]
          IN /\ id \in DOMAIN scopes
             /\ DOMAIN scopes' = DOMAIN scopes
             /\ after.ID = before.ID /\ after.ParentID = before.ParentID
             /\ after.Type = before.Type /\ after.Peers = before.Peers
             /\ after.CreatedAt = before.CreatedAt
             /\ after.nil = before.nil
             /\ \A other \in (DOMAIN scopes) \ {id} : scopes'[other] = scopes[other]
             /\ DOMAIN last'.delta.kv = {} =>
                   /\ after.State = before.State
                   /\ after = [before EXCEPT !.UpdatedAt = last'.t1]]_vars

\* C37 witness: PropagateState succeeded with an empty delta on s2, which has
\* a parent, a Peers list and a state of two keys, at a later time than s2
\* was registered, while s1 was registered too.
C37_Witness ==
    /\ Succeeded("PropagateState") /\ last.id = "s2"
    /\ DOMAIN last.delta.kv = {}
    /\ DOMAIN scopes = ScopeIDs
    /\ scopes["s2"].ParentID = "s1" /\ scopes["s2"].Peers = <<"p1", "p2">>
    /\ DOMAIN scopes["s2"].State.kv = StateKeys
    /\ scopes["s2"].CreatedAt < scopes["s2"].UpdatedAt

\* C38: RegisterScope, GetScope and PropagateState, failed or successful,
\* leave the peer directory and every index entry as they were, and with
\* them what DiscoverPeers returns for every key; the list DiscoverPeers(s)
\* returns is computed from the directory and the index alone, the same
\* whether s is registered or not.
C38_RegistryLeavesPeerNetwork ==
    [][/\ last'.op \in {"RegisterScope", "GetScope", "PropagateState"} =>
             /\ activePeers' = activePeers
             /\ entries' = entries
             /\ \A k \in DHTKeys :
                   discovered(activePeers', entries', k) = discovered(activePeers, entries, k)
       /\ last'.op = "DiscoverPeers" =>
             /\ last'.err = NoErr
             /\ last'.retPeers = livePeers(activePeers, lookup(entries, last'.id))
             /\ scopes' = scopes]_vars

\* C38 witness: DiscoverPeers(s1) returned both peers while s1 was not
\* registered and s2 was.
C38_Witness ==
    /\ Called("DiscoverPeers") /\ last.id = "s1"
    /\ "s1" \notin DOMAIN scopes /\ "s2" \in DOMAIN scopes
    /\ IDsOf(last.retPeers) = PeerIDs

----------------------------------------------------------------------------
(* Further claims about the UnifiedFramework, checked under SpecUnified *)

\* C39 (as claimed): whenever UnifiedFramework.PropagateState returns an
\* error, the scope registry (every scope's state and UpdatedAt) and the
\* atoms (every atom's Attributes) are as they were before the call, also
\* when the identifier is a registered scope with no atom in the space.
C39_UnifiedPropagateAllOrNothing ==
    [][(last'.op = "UnifiedFramework.PropagateState" /\ last'.err # NoErr) =>
          /\ scopes' = scopes
          /\ atoms' = atoms]_vars

====
